---- MODULE Spec2Model ----
(***************************************************************************)
(* A model of the FBFetch synchronisation scripts.                         *)
(*                                                                         *)
(*   SpecGov    the rate-limit governor inside api_request                 *)
(*              (fetch_facebook_reach.py and fetch_facebook_comments.py)   *)
(*   Spec       one reporting window of fetch_facebook_reach.py: load the  *)
(*              CSV, process the discovered pages, save the CSV            *)
(*   SpecWeekly one week of fetch_facebook_reach_weekly.py                 *)
(*                                                                         *)
(* Each specification moves its own variables and leaves the others at     *)
(* their initial values.                                                   *)
(***************************************************************************)
EXTENDS Integers, Sequences, FiniteSets, TLC

VARIABLES
    \* ---- api_request of fetch_facebook_reach.py (module globals, l.59-64)
    script,                 \* which script's api_request this process runs
    rate_limit_backoff,     \* float, stored in units of 1/Scale
    consecutive_successes,  \* int
    time_since_limit,       \* time.time() - last_rate_limit_time in 1/Scale s,
                            \* NoLimitYet while last_rate_limit_time is None
    attempt,                \* loop variable of "for attempt in range(retries)"
    g_pc,                   \* position inside api_request
    wait_time,              \* the argument of the pending time.sleep
    g_result,               \* what the last api_request call returned
    g_event,                \* the last HTTP response handled
    decays,                 \* number of multiplier decays so far (bounded)
    g_causes,               \* history: what the responses of the current call
                            \* were, "none", "rate_limit" (429 or code 4 only)
                            \* or "mixed"
    \* ---- one reporting window of fetch_facebook_reach.py
    api,            \* the remote API: what it answers for each page
    listing,        \* the remote API: what /me/accounts lists, in order
    file,           \* the window's CSV file FB_YYYY_MM.csv (the Sink)
    cache,          \* the dict cache of page names: page id -> name
    cache_file,     \* page_names.json
    pc,             \* position of the run
    runs,           \* runs started so far (bounded)
    update_all,     \* --update-all of the current run
    missing_columns,\* second result of read_existing_csv
    existing_page_ids, \* the keys of existing_data
    results,        \* the list results of process_in_batches; the rows of
                    \* existing_data are its first elements (same objects)
    full_queue,     \* pages_needing_full_processing not yet processed
    partial_queue,  \* pages_needing_partial_update not yet processed
    counters,       \* success, failed, skipped, updated
    sorted_data,    \* save_results: the rows still to be written
    fieldnames,     \* save_results: the header chosen
    \* ---- history, read by the properties only
    requests,       \* the API requests of the current run: <<page id, kind>>
    file_at_start,  \* the file when the current run started
    loaded,         \* existing_data as read_existing_csv returned it
    merged,         \* the rows the current run handed to save_results
    discovered,     \* the page list of the current run after the filter
    outcome,        \* how the last run ended
    prev_outcome    \* how the run before it ended

govVars == <<script, rate_limit_backoff, consecutive_successes, time_since_limit,
             attempt, g_pc, wait_time, g_result, g_event, decays, g_causes>>

syncVars == <<api, listing, file, cache, cache_file, pc, runs, update_all, missing_columns,
              existing_page_ids, results, full_queue, partial_queue, counters,
              sorted_data, fieldnames, requests, file_at_start, loaded, merged,
              discovered, outcome, prev_outcome>>

\* fetch_facebook_reach_weekly.py, one week
VARIABLES
    pages_json,     \* --pages-json names a file with the pages to process
    w_pc,           \* where main is: "start", "week", "done", "exit"
    w_pages,        \* pages still to process in process_week
    w_rows,         \* rows of process_week
    week_file       \* week_<n>.csv: its data lines

weekVars == <<pages_json, w_pc, w_pages, w_rows, week_file>>

\* get_page_metrics l.459-475 and save_results, for one value of one metric
VARIABLES
    v_key,          \* result_key of the metric
    v_raw,          \* metric["values"][0].get("value", 0) as the API sent it
    v_pc,           \* "fetched", "stored", "written"
    v_stored,       \* result[result_key]
    v_sort,         \* the sort key save_results computes for the row
    v_cell          \* the text csv.DictWriter writes for the value

metricVars == <<v_key, v_raw, v_pc, v_stored, v_sort, v_cell>>

\* main of fetch_facebook_reach.py (discovery, the months, the loop over
\* them), the discovery of fetch_facebook_reach_weekly.py and the months of
\* fetch_facebook_comments.py
VARIABLES
    m_script,       \* "reach", "weekly" or "comments"
    m_batches,      \* what /me/accounts answers, one answer per request
    m_now,          \* datetime.now() as <<year, month>>
    m_start,        \* start_year_month as <<year, month>>
    m_files,        \* the months that have a report file, as their names spell them
    m_pc,           \* "discover", "plan", "window", "weeks", "exit"
    m_next,         \* the index of the next discovery request
    m_pages,        \* pages: the ids collected by the discovery
    m_windows,      \* missing_months still to process
    m_done,         \* the months processed
    m_token_calls,  \* history: token exchanges sent so far, per page
    m_exit          \* exit status of the process, Running until it ends

mainVars == <<m_script, m_batches, m_now, m_start, m_files, m_pc, m_next, m_pages,
              m_windows, m_done, m_token_calls, m_exit>>

\* safe_media_insights_v46 of fetch_instagram_posts_ver4_6.py: the insights
\* of one media, asked with up to three metric lists
VARIABLES
    c_answers,      \* what the API answers to the optimal, fallback and minimal list
    c_pc,           \* "start", the list whose request is in flight, or "returned"
    c_sent,         \* history: the lists requested so far, in order
    c_data,         \* data: the body of the answer to the optimal list
    c_result        \* the body the function returned

chainVars == <<c_answers, c_pc, c_sent, c_data, c_result>>

\* one paginated listing: get_page_ids_with_access and get_page_publications
\* of fetch_facebook_reach.py, list_pages of fetch_facebook_reach_weekly.py
VARIABLES
    l_kind,         \* "reach", "weekly" or "publications"
    l_next,         \* the server: paging.next of the answer to each URL
    l_url,          \* the URL of the next request, NoUrl when the loop is over
    l_count         \* history: the requests sent so far

listVars == <<l_kind, l_next, l_url, l_count>>

calcVars == <<metricVars, mainVars, chainVars, listVars>>

vars == <<govVars, syncVars, weekVars, calcVars>>

(***************************************************************************)
(* Program constants                                                       *)
(***************************************************************************)
MAX_RETRIES == 3
RETRY_DELAY == 5

(***************************************************************************)
(* Bounds of the model                                                     *)
(***************************************************************************)
MaxDecays == 3      \* multiplier decays explored in one behaviour
MaxStreak == 51     \* largest value of consecutive_successes explored
MaxListing == 2     \* entries /me/accounts lists
MaxRuns == 2        \* runs of the script over the window

(***************************************************************************)
(* Fixed-point representation of the floats.  Every value the multiplier   *)
(* can take after at most MaxDecays decays is a multiple of 1/Scale        *)
(* (1/CScale in fetch_facebook_comments.py), so the arithmetic is exact.   *)
(***************************************************************************)
Scale == 32 * 5^MaxDecays
CScale == 32 * 10^MaxDecays

NoLimitYet == -1

Min(a, b) == IF a <= b THEN a ELSE b
Max(a, b) == IF a >= b THEN a ELSE b

\* the window 60 * rate_limit_backoff, in 1/Scale seconds
Window(b) == 60 * b

\* the largest window the gate can ask for: 60 * 10.0 seconds
SatTime == 600 * Scale

\* The code reads the clock only in the comparison of l.147, and the window
\* grows only when last_rate_limit_time is set anew: every elapsed time at or
\* beyond the current window is the same to it, and is stored as SatTime.
Elapsed(since, b) ==
    IF since = NoLimitYet THEN NoLimitYet
    ELSE IF since >= Window(b) THEN SatTime ELSE since

\* time.sleep(d) seen from last_rate_limit_time: the elapsed time grows by d
Sleep(since, d, b) == IF since = NoLimitYet THEN NoLimitYet ELSE Elapsed(since + d, b)

\* rate_limit_backoff = min(rate_limit_backoff * 1.5, 10.0)
BackoffGrownWrong(b) == (b * 3) \div 2
BackoffGrown(b) == Min((b * 3) \div 2, 10 * Scale)

\* rate_limit_backoff = max(rate_limit_backoff * 0.8, 1.0)
BackoffDecayedNoFloor(b) == (b * 4) \div 5
BackoffDecayed(b) == Max((b * 4) \div 5, Scale)

\* int(x) of a non-negative duration given in 1/Scale seconds, in 1/Scale seconds
IntSeconds(x) == (x \div Scale) * Scale

RetryAfterHeaders == {"absent", "1", "not-a-number"}

\* int(response.headers.get('Retry-After', 60 * rate_limit_backoff)); -1: ValueError
RetryAfter(header, b) ==
    CASE header = "absent" -> IntSeconds(Window(b))
      [] header = "1" -> 1 * Scale
      [] OTHER -> -1

\* RETRY_DELAY at every attempt
RetryDelayFlat(a) == RETRY_DELAY * Scale
\* RETRY_DELAY * (2 ** attempt), in 1/Scale seconds
RetryDelay(a) == RETRY_DELAY * (2^a) * Scale

\* the scripts whose api_request is the one of fetch_facebook_reach.py:
\* fetch_instagram_posts_ver4_6.py has the same function (l.143-250) with
\* one more branch, error code 100
GraphScripts == {"reach", "instagram"}

\* get_page_access_token l.328-344 on what api_request gave it: data["access_token"]
\* ("token"), None, or the exception that api_request let through, since
\* the function has no try around the call (l.337)
get_page_access_token(result, has_token) ==
    CASE result = "raised" -> "raised"
      [] result = "json" /\ has_token -> "token"
      [] OTHER -> "None"

\* the history of the responses of one call
AfterRateLimit(causes) == IF causes \in {"none", "rate_limit"} THEN "rate_limit" ELSE "mixed"

GovInit ==
    /\ script \in {"reach", "comments", "instagram"}
    /\ rate_limit_backoff = IF script = "comments" THEN CScale ELSE Scale
    /\ consecutive_successes = 0
    /\ time_since_limit = NoLimitYet
    /\ attempt = 0
    /\ g_pc = "idle"
    /\ wait_time = 0
    /\ g_result = "none"
    /\ g_event = "none"
    /\ decays = 0
    /\ g_causes = "none"

(***************************************************************************)
(* api_request of fetch_facebook_reach.py, lines 141-235                   *)
(***************************************************************************)

\* l.145-150: the gate before the first attempt
BeginRequest ==
    /\ script \in GraphScripts
    /\ g_pc = "idle"
    /\ attempt' = 0
    /\ g_result' = "pending"
    /\ g_event' = "call"
    /\ IF time_since_limit # NoLimitYet /\ time_since_limit < Window(rate_limit_backoff)
       THEN /\ wait_time' = Window(rate_limit_backoff) - time_since_limit
            /\ g_pc' = "gate_sleep"
       ELSE /\ wait_time' = 0
            /\ g_pc' = "request"
    /\ g_causes' = "none"
    /\ UNCHANGED <<script, rate_limit_backoff, consecutive_successes, time_since_limit, decays,
                   syncVars, weekVars, calcVars>>

\* time.sleep(wait_time) returns
SleepDone ==
    /\ script \in GraphScripts
    /\ g_pc \in {"gate_sleep", "retry_sleep"}
    /\ time_since_limit' = Sleep(time_since_limit, wait_time, rate_limit_backoff)
    /\ IF g_pc = "gate_sleep"
       THEN /\ g_pc' = "request"
            /\ UNCHANGED <<attempt, g_result>>
       ELSE \* "continue": the next iteration of the for loop, or l.235
            IF attempt + 1 < MAX_RETRIES
            THEN /\ attempt' = attempt + 1
                 /\ g_pc' = "request"
                 /\ UNCHANGED g_result
            ELSE /\ g_pc' = "idle"
                 /\ g_result' = "None"
                 /\ attempt' = 0
    /\ wait_time' = 0
    /\ UNCHANGED <<script, g_causes, rate_limit_backoff, consecutive_successes, g_event, decays,
                   syncVars, weekVars, calcVars>>

\* l.157-165: HTTP 429
Resp429(header) ==
    /\ script \in GraphScripts
    /\ g_pc = "request"
    /\ g_event' = "429"
    /\ time_since_limit' = 0
    /\ rate_limit_backoff' = BackoffGrown(rate_limit_backoff)
    /\ consecutive_successes' = 0
    /\ LET retry_after == RetryAfter(header, rate_limit_backoff')
       IN IF retry_after < 0
          THEN \* int() raises ValueError, which api_request does not catch
               /\ g_pc' = "idle"
               /\ g_result' = "raised"
               /\ attempt' = 0
               /\ UNCHANGED wait_time
          ELSE /\ wait_time' = retry_after
               /\ g_pc' = "retry_sleep"
               /\ UNCHANGED <<g_result, attempt>>
    /\ g_causes' = AfterRateLimit(g_causes)
    /\ UNCHANGED <<script, decays,
                   syncVars, weekVars, calcVars>>

\* l.167-171: HTTP 5xx
Resp5xx ==
    /\ script \in GraphScripts
    /\ g_pc = "request"
    /\ g_event' = "5xx"
    /\ wait_time' = Min(RetryDelay(attempt), 30 * Scale)
    /\ g_pc' = "retry_sleep"
    /\ g_causes' = "mixed"
    /\ UNCHANGED <<script, rate_limit_backoff, consecutive_successes, time_since_limit,
                   attempt, g_result, decays,
                   syncVars, weekVars, calcVars>>

\* l.176-186: HTTP 400 whose error body has code 4 (application rate limit)
RespCode4 ==
    /\ script \in GraphScripts
    /\ g_pc = "request"
    /\ g_event' = "code4"
    /\ time_since_limit' = 0
    /\ rate_limit_backoff' = BackoffGrown(rate_limit_backoff)
    /\ wait_time' = Min(Window(rate_limit_backoff'), 300 * Scale)
    /\ g_pc' = "retry_sleep"
    /\ g_causes' = AfterRateLimit(g_causes)
    /\ UNCHANGED <<script, consecutive_successes, attempt, g_result, decays,
                   syncVars, weekVars, calcVars>>

\* l.188-190: HTTP 400 whose error body has code 190 (invalid token)
RespCode190 ==
    /\ script \in GraphScripts
    /\ g_pc = "request"
    /\ g_event' = "code190"
    /\ g_pc' = "idle"
    /\ g_result' = "None"
    /\ attempt' = 0
    /\ g_causes' = "mixed"
    /\ UNCHANGED <<script, rate_limit_backoff, consecutive_successes, time_since_limit,
                   wait_time, decays,
                   syncVars, weekVars, calcVars>>

\* l.192-201: any other status that is not 200, with a JSON body
RespOtherStatus ==
    /\ script \in GraphScripts
    /\ g_pc = "request"
    /\ g_event' = "other"
    /\ IF attempt < MAX_RETRIES - 1
       THEN /\ wait_time' = RetryDelay(attempt)
            /\ g_pc' = "retry_sleep"
            /\ UNCHANGED <<g_result, attempt>>
       ELSE /\ g_pc' = "idle"
            /\ g_result' = "error_body"
            /\ attempt' = 0
            /\ UNCHANGED wait_time
    /\ g_causes' = "mixed"
    /\ UNCHANGED <<script, rate_limit_backoff, consecutive_successes, time_since_limit,
                   decays,
                   syncVars, weekVars, calcVars>>

\* l.203-215: HTTP 200 with a JSON body
RespSuccess ==
    /\ script \in GraphScripts
    /\ g_pc = "request"
    /\ consecutive_successes < MaxStreak
    /\ LET n == consecutive_successes + 1
           decay == n >= 50 /\ rate_limit_backoff > Scale
       IN /\ decay => decays < MaxDecays
          /\ g_event' = IF decay THEN "decay" ELSE "200"
          /\ rate_limit_backoff' = IF decay THEN BackoffDecayed(rate_limit_backoff)
                                            ELSE rate_limit_backoff
          /\ consecutive_successes' = IF decay THEN 0 ELSE n
          /\ decays' = IF decay THEN decays + 1 ELSE decays
    /\ time_since_limit' = Elapsed(time_since_limit, rate_limit_backoff')
    /\ g_pc' = "idle"
    /\ g_result' = "json"
    /\ attempt' = 0
    /\ UNCHANGED <<script, g_causes, wait_time,
                   syncVars, weekVars, calcVars>>

\* l.217-233: a body that is not JSON, or requests.RequestException
RespUnusable(kind) ==
    /\ script \in GraphScripts
    /\ g_pc = "request"
    /\ g_event' = kind
    /\ IF attempt < MAX_RETRIES - 1
       THEN /\ wait_time' = RetryDelay(attempt)
            /\ g_pc' = "retry_sleep"
            /\ UNCHANGED <<g_result, attempt>>
       ELSE /\ g_pc' = "idle"
            /\ g_result' = "None"
            /\ attempt' = 0
            /\ UNCHANGED wait_time
    /\ g_causes' = "mixed"
    /\ UNCHANGED <<script, rate_limit_backoff, consecutive_successes, time_since_limit,
                   decays,
                   syncVars, weekVars, calcVars>>

\* the process does other work between two api_request calls
Elapse ==
    /\ script \in GraphScripts
    /\ g_pc = "idle"
    /\ g_result # "none"
    /\ time_since_limit \notin {NoLimitYet, SatTime}
    /\ time_since_limit' = SatTime
    /\ UNCHANGED <<script, g_causes, rate_limit_backoff, consecutive_successes, attempt, g_pc,
                   wait_time, g_result, g_event, decays,
                   syncVars, weekVars, calcVars>>

(***************************************************************************)
(* api_request of fetch_facebook_comments.py, lines 78-125: the same       *)
(* globals, a cap of 5.0, a decay of 0.9 and retries by recursion          *)
(* (attempt is its parameter retry_count)                                  *)
(***************************************************************************)

\* rate_limit_backoff = min(5.0, rate_limit_backoff * 1.5)
CBackoffGrown(b) == Min(5 * CScale, (b * 3) \div 2)

\* rate_limit_backoff = max(1.0, rate_limit_backoff * 0.9)
CBackoffDecayed(b) == Max(CScale, (b * 9) \div 10)

\* l.78-91: a call from outside, retry_count = 0
CBeginRequest ==
    /\ script = "comments"
    /\ g_pc = "idle"
    /\ attempt' = 0
    /\ g_pc' = "request"
    /\ g_result' = "pending"
    /\ g_event' = "call"
    /\ g_causes' = "none"
    /\ UNCHANGED <<script, rate_limit_backoff, consecutive_successes, time_since_limit,
                   wait_time, decays,
                   syncVars, weekVars, calcVars>>

\* l.94-98: HTTP 200
CRespSuccess ==
    /\ script = "comments"
    /\ g_pc = "request"
    /\ consecutive_successes < MaxStreak
    /\ LET n == consecutive_successes + 1
           decay == n > 10 /\ rate_limit_backoff > CScale
       IN /\ decay => decays < MaxDecays
          /\ g_event' = IF decay THEN "decay" ELSE "200"
          /\ rate_limit_backoff' = IF decay THEN CBackoffDecayed(rate_limit_backoff)
                                            ELSE rate_limit_backoff
          /\ consecutive_successes' = n
          /\ decays' = IF decay THEN decays + 1 ELSE decays
    /\ g_pc' = "idle"
    /\ g_result' = "json"
    /\ attempt' = 0
    /\ UNCHANGED <<script, g_causes, time_since_limit, wait_time,
                   syncVars, weekVars, calcVars>>

\* l.100-110: HTTP 429 (or status 17): sleep, then recurse or give up
CResp429 ==
    /\ script = "comments"
    /\ g_pc = "request"
    /\ g_event' = "429"
    /\ consecutive_successes' = 0
    /\ rate_limit_backoff' = CBackoffGrown(rate_limit_backoff)
    /\ IF attempt < MAX_RETRIES
       THEN /\ attempt' = attempt + 1
            /\ UNCHANGED <<g_pc, g_result>>
       ELSE /\ attempt' = 0
            /\ g_pc' = "idle"
            /\ g_result' = "None"
    /\ g_causes' = AfterRateLimit(g_causes)
    /\ UNCHANGED <<script, time_since_limit, wait_time, decays,
                   syncVars, weekVars, calcVars>>

\* l.112-114, 123-125: any other status, or an exception that is no Timeout
CRespFailure(kind) ==
    /\ script = "comments"
    /\ g_pc = "request"
    /\ g_event' = kind
    /\ attempt' = 0
    /\ g_pc' = "idle"
    /\ g_result' = "None"
    /\ g_causes' = "mixed"
    /\ UNCHANGED <<script, rate_limit_backoff, consecutive_successes, time_since_limit,
                   wait_time, decays,
                   syncVars, weekVars, calcVars>>

\* l.116-121: requests.exceptions.Timeout
CRespTimeout ==
    /\ script = "comments"
    /\ g_pc = "request"
    /\ g_event' = "timeout"
    /\ IF attempt < MAX_RETRIES
       THEN /\ attempt' = attempt + 1
            /\ UNCHANGED <<g_pc, g_result>>
       ELSE /\ attempt' = 0
            /\ g_pc' = "idle"
            /\ g_result' = "None"
    /\ g_causes' = "mixed"
    /\ UNCHANGED <<script, rate_limit_backoff, consecutive_successes, time_since_limit,
                   wait_time, decays,
                   syncVars, weekVars, calcVars>>

(***************************************************************************)
(* fetch_instagram_posts_ver4_6.py: what its api_request adds, and the     *)
(* requests of safe_media_insights_v46, which are not sent by api_request  *)
(***************************************************************************)

\* api_request l.203-205: HTTP 400 whose error body has code 100
IgRespCode100 ==
    /\ script = "instagram"
    /\ g_pc = "request"
    /\ g_event' = "code100"
    /\ g_pc' = "idle"
    /\ g_result' = "None"
    /\ attempt' = 0
    /\ g_causes' = "mixed"
    /\ UNCHANGED <<script, rate_limit_backoff, consecutive_successes, time_since_limit,
                   wait_time, decays,
                   syncVars, weekVars, calcVars>>

\* the answers _call_api can get
MediaAnswers == {"200", "429", "code100", "other"}

\* get_post_insights l.760 calls safe_media_insights_v46, whose _call_api
\* (l.403-411) sends the first request with requests.get
MediaCall ==
    /\ script = "instagram"
    /\ g_pc = "idle"
    /\ g_pc' = "direct_request"
    /\ attempt' = 0
    /\ g_result' = "pending"
    /\ g_event' = "call"
    /\ g_causes' = "none"
    /\ UNCHANGED <<script, rate_limit_backoff, consecutive_successes, time_since_limit,
                   wait_time, decays,
                   syncVars, weekVars, calcVars>>

\* l.413-445: the answer to the optimal list (attempt 0), to the fallback
\* list (attempt 1) or to the minimal list (attempt 2); the next list is
\* requested at once
MediaResponse(kind) ==
    /\ script = "instagram"
    /\ g_pc = "direct_request"
    /\ g_event' = kind
    /\ g_causes' = IF kind = "429" THEN AfterRateLimit(g_causes) ELSE "mixed"
    /\ IF kind = "200"
       THEN /\ g_pc' = "idle"
            /\ g_result' = "json"
            /\ attempt' = 0
       ELSE IF (attempt = 0 /\ kind = "code100") \/ attempt = 1
       THEN /\ attempt' = attempt + 1
            /\ UNCHANGED <<g_pc, g_result>>
       ELSE /\ g_pc' = "idle"
            /\ g_result' = "error_body"
            /\ attempt' = 0
    /\ UNCHANGED <<script, rate_limit_backoff, consecutive_successes, time_since_limit,
                   wait_time, decays,
                   syncVars, weekVars, calcVars>>

GovNext ==
    \/ BeginRequest
    \/ SleepDone
    \/ \E h \in RetryAfterHeaders : Resp429(h)
    \/ Resp5xx
    \/ RespCode4
    \/ RespCode190
    \/ RespOtherStatus
    \/ RespSuccess
    \/ \E k \in {"bad_json", "network"} : RespUnusable(k)
    \/ Elapse
    \/ CBeginRequest
    \/ CRespSuccess
    \/ CResp429
    \/ \E k \in {"other", "exception"} : CRespFailure(k)
    \/ CRespTimeout
    \/ IgRespCode100
    \/ MediaCall
    \/ \E k \in MediaAnswers : MediaResponse(k)


(***************************************************************************)
(* fetch_facebook_reach.py: the remote API as the run sees it              *)
(***************************************************************************)
Pages == {"p1", "p2", "p3"}

\* page names are strings, kept as sequences of characters
NameAb == <<"A", "b">>
NameCd == <<"C", "d">>
NameSrholder42 == <<"S", "r", "h", "o", "l", "d", "e", "r", "4", "2">>
NameSrholder == <<"S", "r", "h", "o", "l", "d", "e", "r">>
NameEmpty == <<>>
DigitChars == <<"0", "1", "2", "3", "4", "5", "6", "7", "8", "9">>

Range(seq) == {seq[i] : i \in 1..Len(seq)}

\* answers of the insights endpoint that carry no value
ApiError == -1      \* an error body: {"error": {...}}
ApiNoData == -2     \* None, or a body without data
\* two error bodies the API is known to send: insufficient permission
\* (HTTP 403, code 200) and unsupported metric (HTTP 400, code 100);
\* api_request hands both to its caller as it does any other error body
\* (l.192-201)
ApiPermission == -3
ApiUnsupported == -4
ErrorBodies == {ApiError, ApiPermission, ApiUnsupported}
\* api_request returned None after its retries: a network error, a timeout
\* or a body that is not JSON (l.217-235)
ApiTransport == -5

\* What the API answers for one page: its name in /me/accounts, the name
\* GET /{id}?fields=name gives (empty: the request fails), the answer to the
\* token exchange ("ok", "None": no token, "raise": an exception leaves
\* api_request at l.162), the number of published posts and the insights.
Profile(name, lookup, token, pubs, reach, eng, react) ==
    [name |-> name, lookup |-> lookup, token |-> token, pubs |-> pubs,
     reach |-> reach, engagements |-> eng, reactions |-> react]

Healthy == Profile(NameAb, NameAb, "ok", 3, 25, 5, 2)
Profiles ==
    { Healthy,
      Profile(NameSrholder42, NameSrholder42, "ok", 3, 25, 5, 2),
      Profile(NameSrholder, NameSrholder, "ok", 0, 0, 0, 0),
      Profile(NameEmpty, NameEmpty, "ok", 3, 25, 5, 2),
      Profile(NameEmpty, NameCd, "ok", 1, 40, 0, 0),
      Profile(NameAb, NameAb, "None", 3, 25, 5, 2),
      Profile(NameAb, NameAb, "raise", 3, 25, 5, 2),
      Profile(NameAb, NameAb, "ok", 3, ApiError, 5, ApiNoData),
      Profile(NameAb, NameAb, "ok", 3, ApiPermission, 5, 2),
      Profile(NameAb, NameAb, "ok", 3, 25, 5, ApiUnsupported),
      Profile(NameAb, NameAb, "ok", 0, ApiTransport, 0, 0),
      Profile(NameAb, NameAb, "ok", 3, ApiError, ApiError, 2) }

(***************************************************************************)
(* Rows in memory and lines of the CSV file                                *)
(***************************************************************************)
NumericColumns == {"Reach", "Engaged Users", "Engagements", "Reactions", "Publications"}
TextColumns == {"Status", "Comment"}

\* l.509-512
expected_columns == {"Page", "Page ID", "Reach", "Engaged Users", "Engagements",
                     "Reactions", "Publications", "Status", "Comment"}

\* str(n) and int(s) for the numbers of a CSV cell, most significant digit first
RECURSIVE ToDigits(_)
ToDigits(n) ==
    IF n < 10 THEN <<DigitChars[n + 1]>>
    ELSE Append(ToDigits(n \div 10), DigitChars[(n % 10) + 1])
DigitValue(ch) == CHOOSE d \in 0..9 : DigitChars[d + 1] = ch
RECURSIVE FromDigits(_)
FromDigits(s) ==
    IF Len(s) = 1 THEN DigitValue(s[1])
    ELSE 10 * FromDigits(SubSeq(s, 1, Len(s) - 1)) + DigitValue(s[Len(s)])
\* int(cell) raises ValueError unless the cell is a non-empty run of digits
IntFails(cell) == cell = <<>> \/ \E i \in 1..Len(cell) : cell[i] \notin Range(DigitChars)

\* csv.DictWriter: the cell of a row for one column of the header; a key the
\* row lacks gives the empty cell (restval '')
EmptyCell(col) == IF col \in TextColumns THEN "" ELSE <<>>
Cell(row, col) ==
    IF col \notin DOMAIN row THEN EmptyCell(col)
    ELSE IF col \in NumericColumns THEN ToDigits(row[col]) ELSE row[col]
Line(row, header) == [c \in Range(header) |-> Cell(row, c)]

\* a CSV file: the header line and the data lines
Absent == [exists |-> FALSE, header |-> <<>>, rows |-> <<>>]
CsvFile(header, rows) == [exists |-> TRUE, header |-> header, rows |-> rows]

\* A file written by a version of the script older than the Publications
\* column, with the rows of the pages in S, sorted by Reach as every version
\* writes them.
LegacyHeader == <<"Page", "Page ID", "Reach", "Engaged Users", "Engagements",
                  "Reactions", "Status", "Comment">>
LegacyReach(p) == CASE p = "p1" -> 30 [] p = "p2" -> 20 [] OTHER -> 0
LegacyRow(p) ==
    [c \in Range(LegacyHeader) |->
        CASE c = "Page" -> NameAb
          [] c = "Page ID" -> p
          [] c = "Reach" -> LegacyReach(p)
          [] c = "Engaged Users" -> 0
          [] c = "Engagements" -> IF LegacyReach(p) = 0 THEN 0 ELSE 4
          [] c = "Reactions" -> IF LegacyReach(p) = 0 THEN 0 ELSE 1
          [] c = "Status" -> IF LegacyReach(p) = 0 THEN "NO_ACCESS" ELSE "OK"
          [] OTHER -> IF LegacyReach(p) = 0
                      THEN "Kunde inte hamta Page Access Token" ELSE ""]
PageOrder == <<"p1", "p2", "p3">>
RECURSIVE Restrict(_, _)
Restrict(seq, S) ==
    IF seq = <<>> THEN <<>>
    ELSE IF Head(seq) \in S THEN <<Head(seq)>> \o Restrict(Tail(seq), S)
         ELSE Restrict(Tail(seq), S)
LegacyFile(S) ==
    CsvFile(LegacyHeader,
            [i \in 1..Cardinality(S) |-> Line(LegacyRow(Restrict(PageOrder, S)[i]), LegacyHeader)])

(***************************************************************************)
(* read_existing_csv, l.498-550                                            *)
(***************************************************************************)
\* l.520-543: the dict of one line; the flag says that an int() raised
PageData(line) ==
    [c \in DOMAIN line |->
        IF c \in NumericColumns
        THEN IF IntFails(line[c]) THEN 0 ELSE FromDigits(line[c])
        ELSE line[c]]
\* "Reactions" has its own try/except (l.531-535): a bad cell reads as 0
LineFails(line) ==
    \E c \in (DOMAIN line) \cap (NumericColumns \ {"Reactions"}) : IntFails(line[c])

\* existing_data[row["Page ID"]] = page_data: a dict keeps the position of
\* the first row of an id and the value of the last
Put(rows, row) ==
    IF \E i \in 1..Len(rows) : rows[i]["Page ID"] = row["Page ID"]
    THEN [i \in 1..Len(rows) |->
            IF rows[i]["Page ID"] = row["Page ID"] THEN row ELSE rows[i]]
    ELSE Append(rows, row)

\* l.519-548: the loop over the lines stops at the first line that raises,
\* and the except clause keeps what was read so far
RECURSIVE ReadLines(_, _)
ReadLines(lines, acc) ==
    IF lines = <<>> THEN acc
    ELSE IF "Page ID" \notin DOMAIN Head(lines) THEN ReadLines(Tail(lines), acc)
    ELSE IF LineFails(Head(lines)) THEN acc
    ELSE ReadLines(Tail(lines), Put(acc, PageData(Head(lines))))

\* the values of existing_data, in dict order, and missing_columns
read_existing_csv(f) ==
    IF ~f.exists THEN [existing_data |-> <<>>, missing_columns |-> {}]
    ELSE [existing_data |-> ReadLines(f.rows, <<>>),
          missing_columns |-> expected_columns \ Range(f.header)]

(***************************************************************************)
(* Discovery and the placeholder filter                                    *)
(***************************************************************************)
\* l.283: page_ids = [(page["id"], page["name"]) for page in pages]
get_page_ids_with_access(lst, a) == [i \in 1..Len(lst) |-> [id |-> lst[i], name |-> a[lst[i]].name]]

\* l.293: page_name and page_name.startswith('Srholder') and page_name[8:].isdigit()
IsPlaceholder(name) ==
    /\ Len(name) > 8
    /\ SubSeq(name, 1, 8) = NameSrholder
    /\ \A i \in 9..Len(name) : name[i] \in Range(DigitChars)

Filtered(name) == IsPlaceholder(name)

\* l.287-306
RECURSIVE filter_placeholder_pages(_)
filter_placeholder_pages(page_list) ==
    IF page_list = <<>> THEN <<>>
    ELSE IF Filtered(Head(page_list).name)
         THEN filter_placeholder_pages(Tail(page_list))
         ELSE <<Head(page_list)>> \o filter_placeholder_pages(Tail(page_list))

(***************************************************************************)
(* get_page_metrics, l.412-496                                             *)
(***************************************************************************)
MetricKeys == <<"reach", "engagements", "reactions">>
DisplayName(key) ==
    CASE key = "reach" -> "Rackvidd"
      [] key = "engagements" -> "Interaktioner"
      [] OTHER -> "Reaktioner"

\* l.439-441: the metric parameter of the insights request
ApiName(key) ==
    CASE key = "reach" -> "page_impressions_unique"
      [] key = "engagements" -> "page_post_engagements"
      [] OTHER -> "page_actions_post_reactions_total"

\* l.476-480: the metrics answered with an error body, in request order
RECURSIVE ApiErrors(_, _)
ApiErrors(profile, keys) ==
    IF keys = <<>> THEN <<>>
    ELSE (IF profile[Head(keys)] \in ErrorBodies THEN <<DisplayName(Head(keys))>> ELSE <<>>)
         \o ApiErrors(profile, Tail(keys))

\* the first message alone
JoinFirstOnly(msgs) == msgs[1] \o ": fel"

\* l.491: "; ".join(api_errors[:3])
RECURSIVE Join(_)
Join(msgs) ==
    IF Len(msgs) = 1 THEN msgs[1] \o ": fel"
    ELSE msgs[1] \o ": fel; " \o Join(Tail(msgs))

MetricValue(v) == IF v < 0 THEN 0 ELSE v

NoAccessComment == "Kunde inte hamta Page Access Token"

\* get_page_metrics without l.430-434
get_page_metrics_TokenFailureIgnored(profile) ==
    LET api_errors == ApiErrors(profile, MetricKeys)
        reach == MetricValue(profile.reach)
        eng == MetricValue(profile.engagements)
        react == MetricValue(profile.reactions)
        zero == reach = 0 /\ eng = 0 /\ react = 0 /\ profile.pubs = 0
    IN [reach |-> reach, engaged_users |-> 0, engagements |-> eng,
        reactions |-> react, publications |-> profile.pubs,
        status |-> IF api_errors # <<>> THEN "API_ERROR"
                   ELSE IF zero THEN "NO_DATA" ELSE "OK",
        comment |-> IF api_errors # <<>> THEN Join(SubSeq(api_errors, 1, Min(3, Len(api_errors))))
                    ELSE IF zero THEN "Alla varden ar noll" ELSE ""]

\* the dict get_page_metrics returns for a page whose token request did not raise
get_page_metrics(profile) ==
    IF profile.token # "ok"
    THEN [reach |-> 0, engaged_users |-> 0, engagements |-> 0, reactions |-> 0,
          publications |-> 0, status |-> "NO_ACCESS", comment |-> NoAccessComment]
    ELSE LET api_errors == ApiErrors(profile, MetricKeys)
             reach == MetricValue(profile.reach)
             eng == MetricValue(profile.engagements)
             react == MetricValue(profile.reactions)
             zero == reach = 0 /\ eng = 0 /\ react = 0 /\ profile.pubs = 0
         IN [reach |-> reach, engaged_users |-> 0, engagements |-> eng,
             reactions |-> react, publications |-> profile.pubs,
             status |-> IF api_errors # <<>> THEN "API_ERROR"
                        ELSE IF zero THEN "NO_DATA" ELSE "OK",
             comment |-> IF api_errors # <<>> THEN Join(SubSeq(api_errors, 1, Min(3, Len(api_errors))))
                         ELSE IF zero THEN "Alla varden ar noll" ELSE ""]

\* the requests get_page_metrics issues for a page
MetricRequests(id, profile) ==
    {<<id, "token">>} \cup
    (IF profile.token = "ok"
     THEN {<<id, "publications">>, <<id, "insights">>}
          \cup {<<id, ApiName(key)>> : key \in Range(MetricKeys)}
     ELSE {})

\* l.621-631
PageResult(name, id, metrics) ==
    [c \in expected_columns |->
        CASE c = "Page" -> name
          [] c = "Page ID" -> id
          [] c = "Reach" -> metrics.reach
          [] c = "Engaged Users" -> metrics.engaged_users
          [] c = "Engagements" -> metrics.engagements
          [] c = "Reactions" -> metrics.reactions
          [] c = "Publications" -> metrics.publications
          [] c = "Status" -> metrics.status
          [] OTHER -> metrics.comment]

(***************************************************************************)
(* update_existing_page_data, l.564-571                                    *)
(***************************************************************************)
\* dict assignment: the row with the keys of extra added or overwritten
Assign(row, extra) ==
    [c \in (DOMAIN row) \cup (DOMAIN extra) |-> IF c \in DOMAIN extra THEN extra[c] ELSE row[c]]

UpdatedStatus(old) == "UPDATED"

update_existing_page_data(rows, n_existing, page_id, missing_data) ==
    [i \in 1..Len(rows) |->
        IF i <= n_existing /\ rows[i]["Page ID"] = page_id
        THEN Assign(Assign(rows[i], missing_data),
                    [c \in {"Status", "Comment"} |->
                        IF c = "Status"
                        THEN UpdatedStatus(IF "Status" \in DOMAIN rows[i] THEN rows[i]["Status"] ELSE "")
                        ELSE "Saknade kolumner tillagda"])
        ELSE rows[i]]

(***************************************************************************)
(* save_results, l.709-757                                                 *)
(***************************************************************************)
\* the rows in the order the batches left them
KeptInOrder(data) == data
\* l.730: sorted(data, key=Reach, reverse=True), a stable sort
RECURSIVE InsertDesc(_, _)
InsertDesc(sorted, row) ==
    IF sorted = <<>> THEN <<row>>
    ELSE IF Head(sorted)["Reach"] >= row["Reach"]
         THEN <<Head(sorted)>> \o InsertDesc(Tail(sorted), row)
         ELSE <<row>> \o sorted
RECURSIVE SortedByReach(_)
SortedByReach(data) ==
    IF data = <<>> THEN <<>>
    ELSE InsertDesc(SortedByReach(SubSeq(data, 1, Len(data) - 1)), data[Len(data)])

\* l.732-746: the header is chosen from the keys of the first row alone
OptionalColumns == <<"Engaged Users", "Engagements", "Reactions", "Publications",
                     "Status", "Comment">>
RECURSIVE Present(_, _)
Present(cols, row) ==
    IF cols = <<>> THEN <<>>
    ELSE (IF Head(cols) \in DOMAIN row THEN <<Head(cols)>> ELSE <<>>) \o Present(Tail(cols), row)
Fieldnames(sorted) ==
    <<"Page", "Page ID", "Reach">> \o
    (IF sorted = <<>> THEN <<>> ELSE Present(OptionalColumns, sorted[1]))

\* csv.DictWriter raises ValueError for a row with a key the header lacks
Writable(row, header) == DOMAIN row \subseteq Range(header)

\* the file a save that wrote every row leaves
CompleteFile(rows) ==
    LET sorted == SortedByReach(rows)
        header == Fieldnames(sorted)
    IN CsvFile(header, [i \in 1..Len(sorted) |-> Line(sorted[i], header)])

(***************************************************************************)
(* One window of fetch_facebook_reach.py: main, process_month,             *)
(* process_in_batches, save_results                                        *)
(***************************************************************************)
NoCounters == [success |-> 0, failed |-> 0, skipped |-> 0, updated |-> 0, partial |-> 0]
NoRead == [existing_data |-> <<>>, missing_columns |-> {}]
EmptyCache == [p \in {} |-> NameEmpty]

Listings == UNION {[1..n -> Pages] : n \in 0..MaxListing}

\* the in-memory state of a process that is not running
SyncIdle ==
    /\ pc = "idle"
    /\ cache = EmptyCache
    /\ missing_columns = {}
    /\ existing_page_ids = {}
    /\ results = <<>>
    /\ full_queue = <<>>
    /\ partial_queue = <<>>
    /\ sorted_data = <<>>
    /\ fieldnames = <<>>

SyncInit ==
    /\ listing \in Listings
    /\ api \in [Pages -> Profiles]
    /\ \A p \in Pages \ Range(listing) : api[p] = Healthy
    /\ file \in {Absent} \cup {LegacyFile(S) : S \in (SUBSET Pages) \ {{}}}
    /\ cache_file = EmptyCache
    /\ SyncIdle
    /\ runs = 0
    /\ update_all = FALSE
    /\ counters = NoCounters
    /\ requests = {}
    /\ file_at_start = file
    /\ loaded = <<>>
    /\ merged = <<>>
    /\ discovered = <<>>
    /\ outcome = "none"
    /\ prev_outcome = "none"

\* the process ends: its memory is gone, the files stay
EndRun(how) ==
    /\ pc' = "idle"
    /\ outcome' = how
    /\ cache' = EmptyCache
    /\ missing_columns' = {}
    /\ existing_page_ids' = {}
    /\ results' = <<>>
    /\ full_queue' = <<>>
    /\ partial_queue' = <<>>
    /\ sorted_data' = <<>>
    /\ fieldnames' = <<>>

InMemory == <<cache, missing_columns, existing_page_ids, results, full_queue,
              partial_queue, sorted_data, fieldnames>>

\* the stored rows read whatever --update-all says
ExistingReadAlways(f, ua) == read_existing_csv(f)
\* process_month l.1083-1086: the file is read only when it exists and
\* update_all is not set
ExistingRead(f, ua) == IF f.exists /\ ~ua THEN read_existing_csv(f) ELSE NoRead

\* main l.1239, 1273-1283, process_month l.1066-1095 and the plan of
\* process_in_batches l.575-600
StartRun(ua) ==
    /\ pc = "idle"
    /\ runs < MaxRuns
    /\ runs' = runs + 1
    /\ update_all' = ua
    /\ prev_outcome' = outcome
    /\ file_at_start' = file
    /\ requests' = {}
    /\ merged' = <<>>
    /\ LET page_list == filter_placeholder_pages(
                            filter_placeholder_pages(get_page_ids_with_access(listing, api)))
           read == ExistingRead(file, ua)
           existing == read.existing_data
           ids == {existing[i]["Page ID"] : i \in 1..Len(existing)}
           full == SelectSeq(page_list, LAMBDA pg : pg.id \notin ids)
           partial == IF read.missing_columns # {}
                      THEN SelectSeq(page_list, LAMBDA pg : pg.id \in ids)
                      ELSE <<>>
       IN /\ discovered' = page_list
          /\ IF page_list = <<>>
             THEN /\ EndRun("no_pages")
                  /\ loaded' = <<>>
                  /\ counters' = NoCounters
             ELSE /\ pc' = "batches"
                  /\ cache' = cache_file
                  /\ loaded' = existing
                  /\ results' = existing
                  /\ existing_page_ids' = ids
                  /\ missing_columns' = read.missing_columns
                  /\ full_queue' = full
                  /\ partial_queue' = partial
                  /\ counters' = [NoCounters EXCEPT !.partial = Len(partial)]
                  /\ UNCHANGED <<sorted_data, fieldnames, outcome>>
    /\ UNCHANGED <<api, listing, file, cache_file, govVars, weekVars, calcVars>>

\* l.610 and get_page_name l.308-326: the name, empty when it cannot be found
ResolvedName(page) ==
    IF page.name # NameEmpty THEN page.name
    ELSE IF page.id \in DOMAIN cache THEN cache[page.id]
    ELSE api[page.id].lookup
NameRequests(page) ==
    IF page.name = NameEmpty /\ page.id \notin DOMAIN cache THEN {<<page.id, "name">>} ELSE {}
CacheAfter(page) ==
    IF page.name = NameEmpty /\ page.id \notin DOMAIN cache /\ api[page.id].lookup # NameEmpty
    THEN [p \in (DOMAIN cache) \cup {page.id} |->
            IF p = page.id THEN api[page.id].lookup ELSE cache[p]]
    ELSE cache

\* l.608-651: one page of pages_needing_full_processing
ProcessFull ==
    /\ pc = "batches"
    /\ full_queue # <<>>
    /\ LET page == Head(full_queue)
           name == ResolvedName(page)
           profile == api[page.id]
       IN /\ full_queue' = Tail(full_queue)
          /\ cache' = CacheAfter(page)
          /\ IF name = NameEmpty
             THEN \* l.612-615
                  /\ counters' = [counters EXCEPT !.failed = @ + 1]
                  /\ requests' = requests \cup NameRequests(page)
                  /\ UNCHANGED results
             ELSE IF profile.token = "raise"
             THEN \* l.649-651
                  /\ counters' = [counters EXCEPT !.failed = @ + 1]
                  /\ requests' = requests \cup NameRequests(page) \cup {<<page.id, "token">>}
                  /\ UNCHANGED results
             ELSE /\ counters' = [counters EXCEPT !.success = @ + 1]
                  /\ requests' = requests \cup NameRequests(page)
                                          \cup MetricRequests(page.id, profile)
                  /\ results' = Append(results, PageResult(name, page.id, get_page_metrics(profile)))
    /\ UNCHANGED <<api, listing, file, cache_file, pc, runs, update_all, missing_columns,
                   existing_page_ids, partial_queue, sorted_data, fieldnames,
                   file_at_start, loaded, merged, discovered, outcome, prev_outcome,
                   govVars, weekVars, calcVars>>

\* get_missing_data_for_page, l.552-562
get_missing_data_for_page(profile, missing) ==
    IF "Publications" \in missing
    THEN [c \in {"Publications"} |-> profile.pubs]
    ELSE [c \in {} |-> 0]

\* l.659-684: one page of pages_needing_partial_update
ProcessPartial ==
    /\ pc = "batches"
    /\ full_queue = <<>>
    /\ partial_queue # <<>>
    /\ LET page == Head(partial_queue)
           name == ResolvedName(page)
           profile == api[page.id]
       IN /\ partial_queue' = Tail(partial_queue)
          /\ cache' = CacheAfter(page)
          /\ IF name = NameEmpty
             THEN /\ counters' = [counters EXCEPT !.failed = @ + 1]
                  /\ requests' = requests \cup NameRequests(page)
                  /\ UNCHANGED results
             ELSE IF profile.token # "ok"
             THEN /\ counters' = [counters EXCEPT !.failed = @ + 1]
                  /\ requests' = requests \cup NameRequests(page) \cup {<<page.id, "token">>}
                  /\ UNCHANGED results
             ELSE /\ counters' = [counters EXCEPT !.updated = @ + 1]
                  /\ requests' = requests \cup NameRequests(page) \cup {<<page.id, "token">>}
                        \cup (IF "Publications" \in missing_columns
                              THEN {<<page.id, "publications">>} ELSE {})
                  /\ results' = update_existing_page_data(
                                    results, Len(loaded), page.id,
                                    get_missing_data_for_page(profile, missing_columns))
    /\ UNCHANGED <<api, listing, file, cache_file, pc, runs, update_all, missing_columns,
                   existing_page_ids, full_queue, sorted_data, fieldnames,
                   file_at_start, loaded, merged, discovered, outcome, prev_outcome,
                   govVars, weekVars, calcVars>>

\* l.686-690 and process_month l.1097-1098, 1174-1176
EndBatches ==
    /\ pc = "batches"
    /\ full_queue = <<>>
    /\ partial_queue = <<>>
    /\ counters' = [counters EXCEPT !.skipped = Cardinality(existing_page_ids) - counters.partial]
    /\ cache_file' = cache
    /\ merged' = results
    /\ IF results # <<>>
       THEN /\ pc' = "save_open"
            /\ UNCHANGED <<InMemory, outcome>>
       ELSE EndRun("nothing_to_save")
    /\ UNCHANGED <<api, listing, file, runs, update_all, requests, file_at_start, loaded,
                   discovered, prev_outcome, govVars, weekVars, calcVars>>

\* save_results l.730-748: sort, choose the header, open the file for writing
SaveOpen ==
    /\ pc = "save_open"
    /\ sorted_data' = SortedByReach(results)
    /\ fieldnames' = Fieldnames(sorted_data')
    /\ file' = CsvFile(<<>>, <<>>)
    /\ pc' = "save_header"
    /\ UNCHANGED <<api, listing, cache, cache_file, runs, update_all, missing_columns,
                   existing_page_ids, results, full_queue, partial_queue, counters,
                   requests, file_at_start, loaded, merged, discovered, outcome,
                   prev_outcome, govVars, weekVars, calcVars>>

\* l.750: writer.writeheader()
SaveHeader ==
    /\ pc = "save_header"
    /\ file' = CsvFile(fieldnames, <<>>)
    /\ pc' = "save_rows"
    /\ UNCHANGED <<api, listing, cache, cache_file, runs, update_all, missing_columns,
                   existing_page_ids, results, full_queue, partial_queue, counters,
                   sorted_data, fieldnames, requests, file_at_start, loaded, merged,
                   discovered, outcome, prev_outcome, govVars, weekVars, calcVars>>

\* l.751: writer.writerows(sorted_data), one row; a row the header cannot
\* hold raises ValueError, which l.755-757 turn into "return False"
SaveRow ==
    /\ pc = "save_rows"
    /\ sorted_data # <<>>
    /\ IF Writable(Head(sorted_data), fieldnames)
       THEN /\ file' = CsvFile(file.header, Append(file.rows, Line(Head(sorted_data), fieldnames)))
            /\ sorted_data' = Tail(sorted_data)
            /\ UNCHANGED <<pc, outcome, cache, missing_columns, existing_page_ids, results,
                           full_queue, partial_queue, fieldnames>>
       ELSE /\ EndRun("save_failed")
            /\ UNCHANGED file
    /\ UNCHANGED <<api, listing, cache_file, runs, update_all, counters, requests,
                   file_at_start, loaded, merged, discovered, prev_outcome, govVars, weekVars, calcVars>>

\* l.751-754: every row is written, the file is closed
SaveClose ==
    /\ pc = "save_rows"
    /\ sorted_data = <<>>
    /\ EndRun("saved")
    /\ UNCHANGED <<api, listing, file, cache_file, runs, update_all, counters, requests,
                   file_at_start, loaded, merged, discovered, prev_outcome, govVars, weekVars, calcVars>>

\* l.755-757: open() or a write raises (an I/O error); the file keeps what
\* reached it
WriteFails ==
    /\ pc \in {"save_open", "save_header", "save_rows"}
    /\ EndRun("write_error")
    /\ UNCHANGED <<api, listing, file, cache_file, runs, update_all, counters, requests,
                   file_at_start, loaded, merged, discovered, prev_outcome, govVars, weekVars, calcVars>>

\* l.1359-1364: KeyboardInterrupt, at any point of the run
Interrupt ==
    /\ pc # "idle"
    /\ EndRun("interrupted")
    /\ UNCHANGED <<api, listing, file, cache_file, runs, update_all, counters, requests,
                   file_at_start, loaded, merged, discovered, prev_outcome, govVars, weekVars, calcVars>>

SyncNext ==
    \/ \E ua \in BOOLEAN : StartRun(ua)
    \/ ProcessFull
    \/ ProcessPartial
    \/ EndBatches
    \/ SaveOpen
    \/ SaveHeader
    \/ SaveRow
    \/ SaveClose
    \/ WriteFails
    \/ Interrupt

\* the governor of a process that issues no request
GovIdle ==
    /\ script = "reach"
    /\ rate_limit_backoff = Scale
    /\ consecutive_successes = 0
    /\ time_since_limit = NoLimitYet
    /\ attempt = 0
    /\ g_pc = "idle"
    /\ wait_time = 0
    /\ g_result = "none"
    /\ g_event = "none"
    /\ decays = 0
    /\ g_causes = "none"

\* the window of a process that only issues requests
SyncUnused ==
    /\ listing = <<>>
    /\ api = [p \in Pages |-> Healthy]
    /\ file = Absent
    /\ cache_file = EmptyCache
    /\ SyncIdle
    /\ runs = 0
    /\ update_all = FALSE
    /\ counters = NoCounters
    /\ requests = {}
    /\ file_at_start = Absent
    /\ loaded = <<>>
    /\ merged = <<>>
    /\ discovered = <<>>
    /\ outcome = "none"
    /\ prev_outcome = "none"

(***************************************************************************)
(* fetch_facebook_reach_weekly.py: main and process_week for one week      *)
(***************************************************************************)
WeekUnused ==
    /\ pages_json = FALSE
    /\ w_pc = "start"
    /\ w_pages = <<>>
    /\ w_rows = <<>>
    /\ week_file = <<>>

\* l.269-288: list_pages, name = it.get("name") or ""
list_pages == [i \in 1..Len(listing) |-> [id |-> listing[i], name |-> api[listing[i]].name]]

\* l.528-531: the pages of the file --pages-json names, here the listing as
\* an operator exported it
JsonPages == list_pages

\* l.527-542: the pages main hands to process_week
weekly_pages(json) == IF json THEN JsonPages ELSE filter_placeholder_pages(list_pages)

\* get_page_token l.311-323 and get_page_metrics l.355-393 as process_week
\* l.449-457 calls them
weekly_metrics(profile) ==
    IF profile.token # "ok"
    THEN [reach |-> 0, engagements |-> 0, status |-> "ERROR",
          comment |-> "Missing page access token"]
    ELSE IF profile.reach \in ErrorBodies \cup {ApiTransport}
    THEN [reach |-> 0, engagements |-> 0, status |-> "ERROR",
          comment |-> IF profile.reach = ApiPermission THEN "HTTP 403"
                      ELSE IF profile.reach = ApiTransport THEN "Connection error"
                      ELSE "HTTP 400"]
    ELSE IF profile.reach = ApiNoData
    THEN [reach |-> 0, engagements |-> 0, status |-> "NO_DATA", comment |-> "Inga data i svar"]
    ELSE LET eng == MetricValue(profile.engagements)
             idle == profile.reach = 0 /\ eng = 0
         IN [reach |-> profile.reach, engagements |-> eng,
             status |-> IF idle THEN "NO_ACTIVITY" ELSE "OK",
             comment |-> IF idle THEN "Inga aktiviteter under perioden" ELSE ""]

\* l.462-473
WeekRow(page, mr) ==
    [page_id |-> page.id, page_name |-> page.name, reach |-> ToDigits(mr.reach),
     engagements |-> ToDigits(mr.engagements), status |-> mr.status, comment |-> mr.comment]

WeeklyInit ==
    /\ listing \in Listings
    /\ api \in [Pages -> Profiles]
    /\ \A p \in Pages \ Range(listing) : api[p] = Healthy
    /\ file = Absent
    /\ cache_file = EmptyCache
    /\ SyncIdle
    /\ runs = 0
    /\ update_all = FALSE
    /\ counters = NoCounters
    /\ requests = {}
    /\ file_at_start = Absent
    /\ loaded = <<>>
    /\ merged = <<>>
    /\ discovered = <<>>
    /\ outcome = "none"
    /\ prev_outcome = "none"
    /\ pages_json \in BOOLEAN
    /\ w_pc = "start"
    /\ w_pages = <<>>
    /\ w_rows = <<>>
    /\ week_file = <<>>

\* main l.527-542
WeeklyMain ==
    /\ w_pc = "start"
    /\ w_pages' = weekly_pages(pages_json)
    /\ w_pc' = IF ~pages_json /\ w_pages' = <<>> THEN "exit" ELSE "week"
    /\ UNCHANGED <<pages_json, w_rows, week_file, govVars, syncVars, calcVars>>

\* process_week l.448-473: one page
WeeklyPage ==
    /\ w_pc = "week"
    /\ w_pages # <<>>
    /\ w_rows' = Append(w_rows, WeekRow(Head(w_pages), weekly_metrics(api[Head(w_pages).id])))
    /\ w_pages' = Tail(w_pages)
    /\ UNCHANGED <<pages_json, w_pc, week_file, govVars, syncVars, calcVars>>

\* process_week l.474-478 and write_week_csv l.400-412
WeeklyWrite ==
    /\ w_pc = "week"
    /\ w_pages = <<>>
    /\ week_file' = IF w_rows = <<>> THEN week_file ELSE w_rows
    /\ w_pc' = "done"
    /\ UNCHANGED <<pages_json, w_pages, w_rows, govVars, syncVars, calcVars>>

WeeklyNext ==
    \/ WeeklyMain
    \/ WeeklyPage
    \/ WeeklyWrite

(***************************************************************************)
(* fetch_facebook_reach.py: one metric value from the API to the CSV cell  *)
(***************************************************************************)
\* a JSON value: a number, a string or an object; n, s and d hold the one
\* that applies
IntValue(n) == [t |-> "int", n |-> n, s |-> <<>>, d |-> [k \in {} |-> 0]]
DictValue(d) == [t |-> "dict", n |-> 0, s |-> <<>>, d |-> d]

\* the entries a breakdown may carry and the keys it may carry them under
DictEntries ==
    {[t |-> "int", n |-> 10], [t |-> "int", n |-> 5],
     [t |-> "str", s |-> <<"3">>], [t |-> "str", s |-> <<"n", "/", "a">>]}
DictKeys == {"LIKE", "LOVE", "WOW"}
RawValues ==
    {IntValue(0), IntValue(7)}
    \cup {DictValue(d) : d \in UNION {[K -> DictEntries] : K \in SUBSET DictKeys}}

\* str.isdigit()
IsDigit(s) == s # <<>> /\ \A i \in 1..Len(s) : s[i] \in Range(DigitChars)

\* l.465-467 and safe_int_value l.700: sum(int(v) for k, v in value.items()
\* if isinstance(v, (int, float)) or (isinstance(v, str) and v.isdigit()))
RECURSIVE SumDict(_)
SumDict(d) ==
    IF DOMAIN d = {} THEN 0
    ELSE LET k == CHOOSE x \in DOMAIN d : TRUE
             v == d[k]
             rest == [x \in (DOMAIN d) \ {k} |-> d[x]]
         IN (IF v.t = "int" THEN v.n
             ELSE IF IsDigit(v.s) THEN FromDigits(v.s)
             ELSE 0) + SumDict(rest)

\* l.459-475: what get_page_metrics keeps of the value
StoredValue(key, raw) ==
    IF key = "reactions" /\ raw.t = "dict"
    THEN IntValue(SumDict(raw.d))
    ELSE raw

\* safe_int_value l.692-707
safe_int_value(value) ==
    IF value.t = "int" THEN value.n
    ELSE IF value.t = "str"
    THEN (IF IsDigit(value.s) THEN FromDigits(value.s) ELSE 0)
    ELSE SumDict(value.d)

\* str(value) as csv.DictWriter writes it; of the text of a dict,
\* "{'LIKE': 10, ...}", the braces are kept
CellText(value) ==
    IF value.t = "int" THEN ToDigits(value.n)
    ELSE IF value.t = "str" THEN value.s
    ELSE <<"{", "}">>

MetricUnused ==
    /\ v_key = "reach"
    /\ v_raw = IntValue(0)
    /\ v_pc = "fetched"
    /\ v_stored = IntValue(0)
    /\ v_sort = 0
    /\ v_cell = <<>>

MetricInit ==
    /\ v_key \in Range(MetricKeys)
    /\ v_raw \in RawValues
    /\ v_pc = "fetched"
    /\ v_stored = IntValue(0)
    /\ v_sort = 0
    /\ v_cell = <<>>

\* get_page_metrics l.459-475
StoreMetric ==
    /\ v_pc = "fetched"
    /\ v_stored' = StoredValue(v_key, v_raw)
    /\ v_pc' = "stored"
    /\ UNCHANGED <<v_key, v_raw, v_sort, v_cell, govVars, syncVars, weekVars, mainVars,
                   chainVars, listVars>>

\* process_in_batches l.621-631 and save_results l.730, 748-751
WriteMetric ==
    /\ v_pc = "stored"
    /\ v_sort' = safe_int_value(v_stored)
    /\ v_cell' = CellText(v_stored)
    /\ v_pc' = "written"
    /\ UNCHANGED <<v_key, v_raw, v_stored, govVars, syncVars, weekVars, mainVars,
                   chainVars, listVars>>

MetricNext ==
    \/ StoreMetric
    \/ WriteMetric

(***************************************************************************)
(* main: discovery, the months to process, the loop over them              *)
(***************************************************************************)
MaxBatches == 2     \* discovery requests answered

Running == -1

\* an answer to a discovery request: its pages, or no usable answer
Batch(ids) == [ok |-> TRUE, ids |-> ids]
NoBatch == [ok |-> FALSE, ids |-> <<>>]
Batches == {NoBatch, Batch(<<"p1">>), Batch(<<"p2", "p3">>)}

\* f"{month:02d}"
TwoDigits(month) == IF month < 10 THEN <<"0">> \o ToDigits(month) ELSE ToDigits(month)
\* f"{year}-{month}"
MonthStrUnpadded(year, month) == ToDigits(year) \o <<"-">> \o ToDigits(month)
\* get_missing_months l.801: f"{year}-{month:02d}"
MonthStr(year, month) == ToDigits(year) \o <<"-">> \o TwoDigits(month)
\* get_months_to_process l.425: f"FB_Comments_{year}_{month:02d}.csv"
CommentsFile(year, month) == ToDigits(year) \o <<"_">> \o TwoDigits(month)

\* the year and the month of a report file, as its name spells them
ReportFile(yyyy, mm) == [yyyy |-> yyyy, mm |-> mm]
ReportFiles ==
    {ReportFile(<<"2", "0", "2", "4">>, <<"1", "2">>),
     ReportFile(<<"2", "0", "2", "5">>, <<"0", "2">>)}
\* get_existing_reports l.759-785: f"{year}-{month}" of FB_<year>_<month>.csv
get_existing_reports(files) == {f.yyyy \o <<"-">> \o f.mm : f \in files}
\* os.path.exists of fetch_facebook_comments.py l.426
comments_files(files) == {f.yyyy \o <<"_">> \o f.mm : f \in files}

\* l.803-806 and comments l.432-436: the month after
NextYear(year, month) == IF month + 1 > 12 THEN year + 1 ELSE year
NextMonth(month) == IF month + 1 > 12 THEN 1 ELSE month + 1

\* get_missing_months l.787-808
RECURSIVE MissingFrom(_, _, _, _)
MissingFrom(year, month, now, existing_reports) ==
    IF year < now[1] \/ (year = now[1] /\ month < now[2])
    THEN (IF MonthStr(year, month) \notin existing_reports
          THEN <<<<year, month>>>> ELSE <<>>)
         \o MissingFrom(NextYear(year, month), NextMonth(month), now, existing_reports)
    ELSE <<>>
get_missing_months(existing_reports, start, now) ==
    MissingFrom(start[1], start[2], now, existing_reports)

\* get_months_to_process l.390-438 without --month
RECURSIVE ToProcessFrom(_, _, _, _)
ToProcessFrom(year, month, end, files) ==
    IF year < end[1] \/ (year = end[1] /\ month <= end[2])
    THEN (IF CommentsFile(year, month) \notin files
          THEN <<<<year, month>>>> ELSE <<>>)
         \o ToProcessFrom(NextYear(year, month), NextMonth(month), end, files)
    ELSE <<>>
get_months_to_process(files, start, now) ==
    LET end == IF now[2] = 1 THEN <<now[1] - 1, 12>> ELSE <<now[1], now[2] - 1>>
    IN ToProcessFrom(start[1], start[2], end, files)

MainUnused ==
    /\ m_script = "reach"
    /\ m_batches = <<NoBatch>>
    /\ m_now = <<2025, 1>>
    /\ m_start = <<2025, 1>>
    /\ m_files = {}
    /\ m_pc = "discover"
    /\ m_next = 1
    /\ m_pages = <<>>
    /\ m_windows = <<>>
    /\ m_done = <<>>
    /\ m_token_calls = [p \in Pages |-> 0]
    /\ m_exit = Running

MainInit ==
    /\ m_script \in {"reach", "weekly", "comments"}
    /\ m_batches \in UNION {[1..n -> Batches] : n \in 1..MaxBatches}
    /\ m_now \in {<<2025, 1>>, <<2025, 4>>}
    /\ m_start \in {<<2024, 11>>, <<2025, 1>>}
    /\ m_files \in SUBSET ReportFiles
    /\ m_pc = "discover"
    /\ m_next = 1
    /\ m_pages = <<>>
    /\ m_windows = <<>>
    /\ m_done = <<>>
    /\ m_token_calls = [p \in Pages |-> 0]
    /\ m_exit = Running

\* get_page_ids_with_access l.265-278: one request of the while loop;
\* get_all_pages of fetch_facebook_comments.py l.145-162 sends the first
\* request only
DiscoverBatch ==
    /\ m_script \in {"reach", "comments"}
    /\ m_pc = "discover"
    /\ LET data == m_batches[m_next]
       IN IF ~data.ok
          THEN \* l.268-269: break
               /\ m_pc' = "plan"
               /\ UNCHANGED <<m_pages, m_next>>
          ELSE /\ m_pages' = m_pages \o data.ids
               /\ IF m_script = "reach" /\ m_next < Len(m_batches)
                  THEN m_next' = m_next + 1 /\ UNCHANGED m_pc
                  ELSE m_pc' = "plan" /\ UNCHANGED m_next
    /\ UNCHANGED <<m_script, m_batches, m_now, m_start, m_files, m_windows, m_done,
                   m_token_calls, m_exit, govVars, syncVars, weekVars, metricVars,
                   chainVars, listVars>>

\* list_pages of fetch_facebook_reach_weekly.py l.269-288: api_get raises
\* ApiError when a request fails, and neither list_pages nor main catches it
WDiscoverBatch ==
    /\ m_script = "weekly"
    /\ m_pc = "discover"
    /\ LET data == m_batches[m_next]
       IN IF ~data.ok
          THEN /\ m_pages' = <<>>
               /\ m_pc' = "exit"
               /\ m_exit' = 1
               /\ UNCHANGED m_next
          ELSE /\ m_pages' = m_pages \o data.ids
               /\ UNCHANGED m_exit
               /\ IF m_next < Len(m_batches)
                  THEN m_next' = m_next + 1 /\ UNCHANGED m_pc
                  ELSE m_pc' = "plan" /\ UNCHANGED m_next
    /\ UNCHANGED <<m_script, m_batches, m_now, m_start, m_files, m_windows, m_done,
                   m_token_calls, govVars, syncVars, weekVars, metricVars,
                   chainVars, listVars>>

\* main l.1273-1277 (no pages: return) and l.1326-1331 (the months); in
\* fetch_facebook_comments.py main returns 1 without pages (l.458-461), in
\* the weekly script main calls sys.exit(1) (l.538-542) and goes on to its
\* weeks otherwise
MainPlan ==
    /\ m_pc = "plan"
    /\ IF m_pages = <<>>
       THEN /\ m_pc' = "exit"
            /\ m_exit' = IF m_script = "reach" THEN 0 ELSE 1
            /\ UNCHANGED m_windows
       ELSE IF m_script = "weekly"
       THEN /\ m_pc' = "weeks"
            /\ UNCHANGED <<m_windows, m_exit>>
       ELSE LET months ==
                    IF m_script = "comments"
                    THEN get_months_to_process(comments_files(m_files), m_start, m_now)
                    ELSE get_missing_months(get_existing_reports(m_files), m_start, m_now)
            IN /\ m_windows' = months
               /\ IF months = <<>>
                  THEN m_pc' = "exit" /\ m_exit' = 0
                  ELSE m_pc' = "window" /\ UNCHANGED m_exit
    /\ UNCHANGED <<m_script, m_batches, m_now, m_start, m_files, m_next, m_pages, m_done,
                   m_token_calls, govVars, syncVars, weekVars, metricVars,
                   chainVars, listVars>>

\* the pages, each as often as the discovery listed it
Listed(pages, p) == Cardinality({i \in 1..Len(pages) : pages[i] = p})

\* main l.1336-1340 and process_month for a month without a file: every
\* page is fetched in full, which starts with get_page_access_token
\* (l.428), as process_page_for_month of fetch_facebook_comments.py does
\* (l.311). The token exchanges are taken as answered.
ProcessMonth ==
    /\ m_pc = "window"
    /\ m_windows # <<>>
    /\ m_token_calls' = [p \in Pages |-> m_token_calls[p] + Listed(m_pages, p)]
    /\ m_done' = Append(m_done, Head(m_windows))
    /\ m_windows' = Tail(m_windows)
    /\ IF Tail(m_windows) = <<>>
       THEN m_pc' = "exit" /\ m_exit' = 0
       ELSE UNCHANGED <<m_pc, m_exit>>
    /\ UNCHANGED <<m_script, m_batches, m_now, m_start, m_files, m_next, m_pages,
                   govVars, syncVars, weekVars, metricVars,
                   chainVars, listVars>>

MainNext ==
    \/ DiscoverBatch
    \/ WDiscoverBatch
    \/ MainPlan
    \/ ProcessMonth

(***************************************************************************)
(* safe_media_insights_v46, fetch_instagram_posts_ver4_6.py l.392-445      *)
(***************************************************************************)
\* what _call_api (l.403-411) can return: status 200 with a data field,
\* status 200 without one, status 400 with error code 100, status 400 with
\* another error, a 5xx, a body that is not JSON
ChainAnswers == {"200data", "200nodata", "code100", "400other", "500", "nonjson"}
\* the lists of l.414, l.427 and l.436
MetricLists == <<"optimal", "fallback", "minimal">>
\* the body of an answer, named by the list that was asked and the answer
Body(list, answer) == <<list, answer>>
NoBody == <<"none", "none">>
\* l.416, l.430, l.439: status == 200 and isinstance(data, dict) and "data" in data
Succeeded(answer) == answer = "200data"

\* the body of the last answer
LastBody(data, data3) == data3
\* l.443-445: return data
OriginalError(data, data3) == data

ChainUnused ==
    /\ c_answers = [i \in 1..3 |-> "200data"]
    /\ c_pc = "start"
    /\ c_sent = <<>>
    /\ c_data = NoBody
    /\ c_result = NoBody

ChainInit ==
    /\ c_answers \in [1..3 -> ChainAnswers]
    /\ c_pc = "start"
    /\ c_sent = <<>>
    /\ c_data = NoBody
    /\ c_result = NoBody

\* l.413-415: the request with the optimal list
CallOptimal ==
    /\ c_pc = "start"
    /\ c_sent' = Append(c_sent, MetricLists[1])
    /\ c_pc' = "optimal"
    /\ UNCHANGED <<c_answers, c_data, c_result,
                   govVars, syncVars, weekVars, metricVars, mainVars, listVars>>

\* l.415-428: the answer to the optimal list; on 400 with code 100 the
\* fallback list is requested
AnswerOptimal ==
    /\ c_pc = "optimal"
    /\ c_data' = Body(MetricLists[1], c_answers[1])
    /\ IF Succeeded(c_answers[1])
       THEN c_result' = c_data' /\ c_pc' = "returned" /\ UNCHANGED c_sent
       ELSE IF c_answers[1] = "code100"
       THEN /\ c_sent' = Append(c_sent, MetricLists[2])
            /\ c_pc' = "fallback"
            /\ UNCHANGED c_result
       ELSE c_result' = c_data' /\ c_pc' = "returned" /\ UNCHANGED c_sent
    /\ UNCHANGED <<c_answers, govVars, syncVars, weekVars, metricVars, mainVars, listVars>>

\* l.428-437: the answer to the fallback list; on any failure the minimal
\* list is requested
AnswerFallback ==
    /\ c_pc = "fallback"
    /\ IF Succeeded(c_answers[2])
       THEN /\ c_result' = Body(MetricLists[2], c_answers[2])
            /\ c_pc' = "returned"
            /\ UNCHANGED c_sent
       ELSE /\ c_sent' = Append(c_sent, MetricLists[3])
            /\ c_pc' = "minimal"
            /\ UNCHANGED c_result
    /\ UNCHANGED <<c_answers, c_data,
                   govVars, syncVars, weekVars, metricVars, mainVars, listVars>>

\* l.437-445: the answer to the minimal list
AnswerMinimal ==
    /\ c_pc = "minimal"
    /\ c_result' = IF Succeeded(c_answers[3])
                   THEN Body(MetricLists[3], c_answers[3])
                   ELSE OriginalError(c_data, Body(MetricLists[3], c_answers[3]))
    /\ c_pc' = "returned"
    /\ UNCHANGED <<c_answers, c_sent, c_data,
                   govVars, syncVars, weekVars, metricVars, mainVars, listVars>>

ChainNext ==
    \/ CallOptimal
    \/ AnswerOptimal
    \/ AnswerFallback
    \/ AnswerMinimal

(***************************************************************************)
(* Paginated listings                                                      *)
(***************************************************************************)
MaxRequests == 5    \* requests of one listing explored

\* the URLs the server can name; the first is the URL of the first request
Urls == {"u1", "u2", "u3"}
FirstUrl == "u1"
NoUrl == "none"
\* get_page_publications l.401: if page_num > 50
MaxPublicationPages == 50

ListUnused ==
    /\ l_kind = "reach"
    /\ l_next = [u \in Urls |-> NoUrl]
    /\ l_url = NoUrl
    /\ l_count = 0

ListInit ==
    /\ l_kind \in {"reach", "weekly", "publications"}
    /\ l_next \in [Urls -> Urls \cup {NoUrl}]
    /\ l_url = FirstUrl
    /\ l_count = 0

\* get_page_ids_with_access l.265-278: one turn of the loop, the request
\* answered with data; the loop ends when paging.next is absent or is the
\* URL of the first request
ReachListRequest ==
    /\ l_kind = "reach"
    /\ l_url # NoUrl
    /\ l_count < MaxRequests
    /\ l_count' = l_count + 1
    /\ LET next_url == l_next[l_url]
       IN l_url' = IF next_url # NoUrl /\ next_url # FirstUrl THEN next_url ELSE NoUrl
    /\ UNCHANGED <<l_kind, l_next,
                   govVars, syncVars, weekVars, metricVars, mainVars, chainVars>>

\* list_pages l.274-287: one turn of the loop; it ends when paging.next is
\* absent
WeeklyListRequest ==
    /\ l_kind = "weekly"
    /\ l_url # NoUrl
    /\ l_count < MaxRequests
    /\ l_count' = l_count + 1
    /\ l_url' = l_next[l_url]
    /\ UNCHANGED <<l_kind, l_next,
                   govVars, syncVars, weekVars, metricVars, mainVars, chainVars>>

\* get_page_publications l.376-403: one turn of the loop, the request
\* answered with posts; it ends when paging.next is absent or page_num is
\* past the limit
PublicationsRequest ==
    /\ l_kind = "publications"
    /\ l_url # NoUrl
    /\ l_count' = l_count + 1
    /\ l_url' = IF l_count' > MaxPublicationPages THEN NoUrl ELSE l_next[l_url]
    /\ UNCHANGED <<l_kind, l_next,
                   govVars, syncVars, weekVars, metricVars, mainVars, chainVars>>

ListNext ==
    \/ ReachListRequest
    \/ WeeklyListRequest
    \/ PublicationsRequest

CalcUnused == MetricUnused /\ MainUnused /\ ChainUnused /\ ListUnused

\* a run of the reach script over one window, its requests taken as answered
Init == SyncInit /\ GovIdle /\ WeekUnused /\ CalcUnused
Next == SyncNext
Spec == Init /\ [][Next]_vars

\* the requests of one process, one after the other
InitGov == GovInit /\ SyncUnused /\ WeekUnused /\ CalcUnused
SpecGov == InitGov /\ [][GovNext]_vars

\* a run of the weekly script over one week
InitWeekly == WeeklyInit /\ GovIdle /\ CalcUnused
SpecWeekly == InitWeekly /\ [][WeeklyNext]_vars

\* one value of one metric, from the answer of the API to the CSV file
InitMetric ==
    MetricInit /\ MainUnused /\ ChainUnused /\ ListUnused /\ GovIdle /\ SyncUnused /\ WeekUnused
SpecMetric == InitMetric /\ [][MetricNext]_vars

\* one process from the discovery to the last month
InitMain ==
    MainInit /\ MetricUnused /\ ChainUnused /\ ListUnused /\ GovIdle /\ SyncUnused /\ WeekUnused
SpecMain == InitMain /\ [][MainNext]_vars

\* the insights of one media
InitChain ==
    ChainInit /\ MetricUnused /\ MainUnused /\ ListUnused /\ GovIdle /\ SyncUnused /\ WeekUnused
SpecChain == InitChain /\ [][ChainNext]_vars

\* one listing from its first request to its last
InitList ==
    ListInit /\ MetricUnused /\ MainUnused /\ ChainUnused /\ GovIdle /\ SyncUnused /\ WeekUnused
SpecList == InitList /\ [][ListNext]_vars

(***************************************************************************)
(* Properties                                                              *)
(***************************************************************************)
\* the rows of a file that carry a page id, and the ids a run discovered
RowsOf(f, id) == {j \in 1..Len(f.rows) : f.rows[j]["Page ID"] = id}
ListedIds == {listing[i] : i \in 1..Len(listing)}
DiscoveredIds == {discovered[i].id : i \in 1..Len(discovered)}
NoIdListedTwice == Cardinality(ListedIds) = Len(listing)
\* the run that just ended went through save_results with what it merged
RanToSave == pc = "idle" /\ outcome \in {"saved", "save_failed"}

\* C1: when the stored state of the window lacks Publications but has Reach,
\* a run without update_all sends no insights request for a page the state
\* already holds (only the token exchange and the Publications fetch), and
\* every stored Reach value is found again, unchanged, in the file the run
\* leaves.
C1_BackfillOnlyRefetch ==
    (/\ RanToSave
     /\ ~update_all
     /\ file_at_start.exists
     /\ "Reach" \in Range(file_at_start.header)
     /\ "Publications" \notin Range(file_at_start.header))
    => \A i \in 1..Len(file_at_start.rows) :
          LET old == file_at_start.rows[i]
          IN /\ <<old["Page ID"], "insights">> \notin requests
             /\ \E j \in RowsOf(file, old["Page ID"]) : file.rows[j]["Reach"] = old["Reach"]

\* C2: a run that saved, followed by a second run without update_all that
\* saved as well, the API answering the same: the second file is the first
\* one, line for line.
C2_Idempotent ==
    (/\ pc = "idle"
     /\ runs = 2
     /\ prev_outcome = "saved"
     /\ outcome = "saved"
     /\ ~update_all)
    => file = file_at_start

\* C3: in every state, whatever the run is doing, the file of the window is
\* the file that was there when the run started or the complete file of the
\* merged rows.
C3_SinkAllOrNothing ==
    \/ file = file_at_start
    \/ merged # <<>> /\ file = CompleteFile(merged)

\* C4: no row of any output, monthly file or weekly file, names a page
\* "Srholder" followed by digits only.
C4_NoPlaceholderRow ==
    /\ \A j \in 1..Len(file.rows) : ~IsPlaceholder(file.rows[j]["Page"])
    /\ \A j \in 1..Len(week_file) : ~IsPlaceholder(week_file[j].page_name)

\* C5: in the file a run has saved, no page id is on two lines.
C5_UniqueResourceId ==
    (pc = "idle" /\ outcome = "saved")
    => \A i, j \in 1..Len(file.rows) :
          file.rows[i]["Page ID"] = file.rows[j]["Page ID"] => i = j

\* C6: after a run without update_all, every row that was loaded for a page
\* the listing no longer returns is in the file, each of its values the same.
C6_UnlistedRetained ==
    (RanToSave /\ ~update_all)
    => \A i \in 1..Len(loaded) :
          loaded[i]["Page ID"] \notin DiscoveredIds
          => \E j \in RowsOf(file, loaded[i]["Page ID"]) :
                \A c \in DOMAIN loaded[i] :
                    c \in DOMAIN file.rows[j] /\ file.rows[j][c] = Cell(loaded[i], c)

\* C7: from the file a run without update_all starts with to the file it
\* saves, the Status of a page stays what it was, or goes from OK to UPDATED
\* while the row gains the Publications column it lacked.
C7_StatusOnlyOkToUpdated ==
    (pc = "idle" /\ outcome = "saved" /\ ~update_all /\ file_at_start.exists)
    => \A i \in 1..Len(file_at_start.rows) :
          \A j \in RowsOf(file, file_at_start.rows[i]["Page ID"]) :
             LET old == file_at_start.rows[i]
                 new == file.rows[j]
             IN ("Status" \in DOMAIN old /\ "Status" \in DOMAIN new)
                => \/ new["Status"] = old["Status"]
                   \/ /\ old["Status"] = "OK"
                      /\ new["Status"] = "UPDATED"
                      /\ "Publications" \notin DOMAIN old
                      /\ "Publications" \in DOMAIN new

\* C8: when the listing names no page twice and the run is through its
\* batches and its save, every page that passed the placeholder filter has
\* exactly one row in the output.
C8_OneRecordPerResource ==
    (/\ pc = "idle"
     /\ outcome \in {"saved", "nothing_to_save"}
     /\ NoIdListedTwice)
    => \A id \in DiscoveredIds : Cardinality(RowsOf(file, id)) = 1

\* C9: in every state rate_limit_backoff is at least 1.0 and at most 10.0,
\* in fetch_facebook_reach.py and in fetch_facebook_comments.py.
C9_BackoffWithinDomain ==
    IF script = "comments"
    THEN CScale <= rate_limit_backoff /\ rate_limit_backoff <= 10 * CScale
    ELSE Scale <= rate_limit_backoff /\ rate_limit_backoff <= 10 * Scale
\* a decay that was stopped by the floor 1.0
C9_Witness ==
    /\ script = "reach"
    /\ g_event = "decay"
    /\ rate_limit_backoff = Scale
    /\ decays >= 2

\* C10: a step of api_request (fetch_facebook_reach.py) that receives HTTP
\* 429 sets last_rate_limit_time to now, the multiplier to
\* min(previous * 1.5, 10.0) and consecutive_successes to 0; the multiplier
\* does not go down and does not pass 10.0.
C10_Each429 ==
    [][(script = "reach" /\ g_pc = "request" /\ g_event' = "429")
       => /\ time_since_limit' = 0
          /\ consecutive_successes' = 0
          /\ rate_limit_backoff' = IF 3 * rate_limit_backoff <= 20 * Scale
                                   THEN (3 * rate_limit_backoff) \div 2
                                   ELSE 10 * Scale
          /\ rate_limit_backoff' >= rate_limit_backoff
          /\ rate_limit_backoff' <= 10 * Scale]_vars
\* a 429 that arrived after a run of successes and met the cap
C10_Witness ==
    /\ script = "reach"
    /\ g_pc = "retry_sleep"
    /\ g_event = "429"
    /\ time_since_limit = 0
    /\ consecutive_successes = 0
    /\ rate_limit_backoff = 10 * Scale
    /\ decays >= 1

\* C11: a step of api_request (fetch_facebook_reach.py) that receives the
\* application rate limit error (code 4) updates the governor as a 429
\* does: last_rate_limit_time is now, the multiplier is
\* min(previous * 1.5, 10.0), consecutive_successes is 0.
C11_Code4LikeA429 ==
    [][(script = "reach" /\ g_pc = "request" /\ g_event' = "code4")
       => /\ time_since_limit' = 0
          /\ rate_limit_backoff' = IF 3 * rate_limit_backoff <= 20 * Scale
                                   THEN (3 * rate_limit_backoff) \div 2
                                   ELSE 10 * Scale
          /\ consecutive_successes' = 0]_vars

\* C12: a successful response of api_request (fetch_facebook_reach.py)
\* adds one to consecutive_successes; when that makes 50, the multiplier
\* becomes max(previous * 0.8, 1.0) and the counter 0, whatever the
\* multiplier is; otherwise the multiplier stays.
C12_DecayEvery50 ==
    [][(script = "reach" /\ g_pc = "request" /\ g_event' \in {"200", "decay"})
       => IF consecutive_successes + 1 = 50
          THEN /\ consecutive_successes' = 0
               /\ rate_limit_backoff' = IF 4 * rate_limit_backoff >= 5 * Scale
                                        THEN (4 * rate_limit_backoff) \div 5
                                        ELSE Scale
          ELSE /\ consecutive_successes' = consecutive_successes + 1
               /\ rate_limit_backoff' = rate_limit_backoff]_vars

\* C13: whenever api_request (fetch_facebook_reach.py) is about to send an
\* HTTP request, first attempt or retry, no rate limit was seen or at least
\* 60 * rate_limit_backoff seconds have passed since the last one.
C13_NoRequestInsideWindow ==
    (script = "reach" /\ g_pc = "request")
    => \/ time_since_limit = NoLimitYet
       \/ time_since_limit >= Window(rate_limit_backoff)

\* C14: a logical request sends at most MAX_RETRIES HTTP requests: when a
\* request is about to be sent, fewer than MAX_RETRIES were sent before it
\* for the same logical request.
C14_AttemptBudget == g_pc = "request" => attempt + 1 <= MAX_RETRIES

C16_EveryRequestGoverned ==
    [][(script \in GraphScripts)
       => /\ ((g_pc = "idle" /\ g_pc' \in {"request", "direct_request"})
               => (time_since_limit = NoLimitYet
                   \/ time_since_limit >= Window(rate_limit_backoff)))
          /\ ((g_pc \in {"request", "direct_request"} /\ g_event' = "429")
               => (time_since_limit' = 0 /\ consecutive_successes' = 0))
          /\ ((g_pc \in {"request", "direct_request"} /\ g_event' \in {"200", "decay"})
               => (consecutive_successes' # consecutive_successes))]_vars

\* C17: when the last response of an api_request call
\* (fetch_facebook_reach.py, fetch_instagram_posts_ver4_6.py) has a status
\* other than 200 and a JSON error body (code 190, code 100 or any other
\* error), the call returns that parsed body, never None.
C17_ErrorBodyReturned ==
    (/\ script \in GraphScripts
     /\ g_pc = "idle"
     /\ g_event \in {"code190", "code100", "other"})
    => g_result = "error_body"

\* C18: after a run of fetch_facebook_reach.py that saved, a listed page
\* whose token exchange was attempted and returned nothing, and for which
\* the run had no stored record, has exactly one record in the file: status
\* NO_ACCESS, comment 'Kunde inte hamta Page Access Token', every metric
\* 0; no insights and no publications request was sent for it; every
\* record with status OK and a positive reach stands before it; and when
\* the run started from nothing, the file has one record per page whose
\* token exchange was answered (two for the resources A and B).
C18_TokenFailureRecord ==
    (pc = "idle" /\ outcome = "saved" /\ NoIdListedTwice)
    => /\ \A id \in DiscoveredIds :
            (/\ <<id, "token">> \in requests
             /\ api[id].token = "None"
             /\ (update_all \/ RowsOf(file_at_start, id) = {}))
            => /\ Cardinality(RowsOf(file, id)) = 1
               /\ \A j \in RowsOf(file, id) :
                     /\ file.rows[j]["Status"] = "NO_ACCESS"
                     /\ file.rows[j]["Comment"] = NoAccessComment
                     /\ \A c \in NumericColumns : file.rows[j][c] = ToDigits(0)
                     /\ \A a \in 1..Len(file.rows) :
                           (/\ file.rows[a]["Status"] = "OK"
                            /\ file.rows[a]["Reach"] # ToDigits(0)) => a < j
               /\ \A r \in requests : r[1] = id => r[2] \in {"token", "name"}
       /\ (update_all \/ ~file_at_start.exists)
          => Len(file.rows) = Cardinality({id \in DiscoveredIds :
                                             /\ <<id, "token">> \in requests
                                             /\ api[id].token # "raise"})
\* the scenario of the spec: A with a reach, B without a token, A first
C18_Witness ==
    /\ pc = "idle"
    /\ outcome = "saved"
    /\ ~file_at_start.exists
    /\ Len(file.rows) = 2
    /\ file.rows[1]["Status"] = "OK"
    /\ file.rows[1]["Reach"] = ToDigits(25)
    /\ file.rows[2]["Status"] = "NO_ACCESS"
    /\ file.rows[2]["Comment"] = NoAccessComment
    /\ api[file.rows[2]["Page ID"]].token = "None"
    /\ listing[1] = file.rows[2]["Page ID"]

\* C19: after a run of fetch_facebook_reach.py that saved, a page whose
\* first insights request (reach) was answered with 'insufficient
\* permission' has the status NO_ACCESS in its record, and no insights
\* request for a later metric was sent for it.
C19_PermissionStopsPage ==
    (pc = "idle" /\ outcome = "saved" /\ NoIdListedTwice)
    => \A id \in DiscoveredIds :
          (/\ <<id, ApiName("reach")>> \in requests
           /\ api[id].reach = ApiPermission)
          => /\ \A j \in RowsOf(file, id) : file.rows[j]["Status"] = "NO_ACCESS"
             /\ <<id, ApiName("engagements")>> \notin requests
             /\ <<id, ApiName("reactions")>> \notin requests

\* C20: after a run of fetch_facebook_reach.py that saved, a page for which
\* the API rejected one metric (reactions) as unsupported and answered the
\* other requests has a record whose Reactions is 0, whose other metrics
\* are the values the API gave, and whose status is NO_DATA when all of
\* them are 0 and is not API_ERROR in any case.
C20_UnsupportedMetricIsSoft ==
    (pc = "idle" /\ outcome = "saved" /\ NoIdListedTwice)
    => \A id \in DiscoveredIds :
          (/\ <<id, ApiName("reactions")>> \in requests
           /\ api[id].reactions = ApiUnsupported
           /\ api[id].reach \notin ErrorBodies
           /\ api[id].engagements \notin ErrorBodies)
          => \A j \in RowsOf(file, id) :
                /\ file.rows[j]["Reactions"] = ToDigits(0)
                /\ file.rows[j]["Reach"] = ToDigits(MetricValue(api[id].reach))
                /\ file.rows[j]["Engagements"] = ToDigits(MetricValue(api[id].engagements))
                /\ file.rows[j]["Publications"] = ToDigits(api[id].pubs)
                /\ file.rows[j]["Status"] # "API_ERROR"
                /\ (/\ MetricValue(api[id].reach) = 0
                    /\ MetricValue(api[id].engagements) = 0
                    /\ api[id].pubs = 0) => file.rows[j]["Status"] = "NO_DATA"

\* C21: after a run of fetch_facebook_reach.py that saved, a page one of
\* whose insights requests ended in a transport failure (api_request gave
\* up and returned None) has the status API_ERROR in its record, and every
\* other listed page the run had no record of was processed (a request
\* was sent for it).
C21_TransportFailureIsApiError ==
    (pc = "idle" /\ outcome = "saved" /\ NoIdListedTwice)
    => \A id \in DiscoveredIds :
          (/\ <<id, ApiName("reach")>> \in requests
           /\ \E key \in Range(MetricKeys) : api[id][key] = ApiTransport)
          => /\ \A j \in RowsOf(file, id) : file.rows[j]["Status"] = "API_ERROR"
             /\ \A other \in DiscoveredIds :
                   (update_all \/ RowsOf(file_at_start, other) = {})
                   => \E r \in requests : r[1] = other

\* C22: after a run of fetch_facebook_reach.py that saved, the record of a
\* page fetched in full with a resolved token has the status API_ERROR
\* and, as comment, the error messages of its metrics in request order
\* joined by '; ' (at most the first three) when some metric was answered
\* with an error body; otherwise NO_DATA when reach, engagements,
\* reactions and publications are all 0; otherwise OK.
C22_StatusOrder ==
    (pc = "idle" /\ outcome = "saved" /\ NoIdListedTwice)
    => \A id \in DiscoveredIds :
          <<id, ApiName("reach")>> \in requests
          => \A j \in RowsOf(file, id) :
                LET failed == SelectSeq(MetricKeys, LAMBDA key : api[id][key] \in ErrorBodies)
                    msg(i) == DisplayName(failed[i]) \o ": fel"
                    all_zero == /\ \A key \in Range(MetricKeys) : api[id][key] <= 0
                                /\ api[id].pubs = 0
                    row == file.rows[j]
                IN IF failed # <<>>
                   THEN /\ row["Status"] = "API_ERROR"
                        /\ row["Comment"] =
                              CASE Len(failed) = 1 -> msg(1)
                                [] Len(failed) = 2 -> msg(1) \o "; " \o msg(2)
                                [] OTHER -> msg(1) \o "; " \o msg(2) \o "; " \o msg(3)
                   ELSE IF all_zero
                   THEN row["Status"] = "NO_DATA"
                   ELSE row["Status"] = "OK"
\* a saved record with two error messages joined
C22_Witness ==
    /\ pc = "idle"
    /\ outcome = "saved"
    /\ NoIdListedTwice
    /\ \E id \in DiscoveredIds :
          /\ <<id, ApiName("reach")>> \in requests
          /\ api[id].reach = ApiError
          /\ api[id].engagements = ApiError
          /\ \E j \in RowsOf(file, id) :
                /\ file.rows[j]["Status"] = "API_ERROR"
                /\ file.rows[j]["Comment"] = "Rackvidd: fel; Interaktioner: fel"

\* C23: whichever metric it belongs to, a value the API sends as a keyed
\* map is kept by get_page_metrics as the sum of its integer entries and
\* of its entries that are strings of digits, the other entries left out,
\* and that sum is what save_results writes in the CSV cell.
C23_DictSummed ==
    (v_pc # "fetched" /\ v_raw.t = "dict")
    => LET numeric == {k \in DOMAIN v_raw.d :
                          \/ v_raw.d[k].t = "int"
                          \/ v_raw.d[k] = [t |-> "str", s |-> <<"3">>]}
           amount(k) == IF v_raw.d[k].t = "int" THEN v_raw.d[k].n ELSE 3
           total == IF numeric = {} THEN 0
                    ELSE IF Cardinality(numeric) = 1
                    THEN amount(CHOOSE k \in numeric : TRUE)
                    ELSE IF Cardinality(numeric) = 2
                    THEN LET a == CHOOSE k \in numeric : TRUE
                             b == CHOOSE k \in numeric : k # a
                         IN amount(a) + amount(b)
                    ELSE amount("LIKE") + amount("LOVE") + amount("WOW")
       IN /\ v_stored = IntValue(total)
          /\ v_pc = "written" => v_cell = ToDigits(total)

\* the months from m_start to the month before m_now, numbered from year 0
MonthNo(w) == 12 * w[1] + (w[2] - 1)
PersistedNos == {12 * FromDigits(f.yyyy) + (FromDigits(f.mm) - 1) : f \in m_files}
Planned == m_done \o m_windows

\* C24: the months main plans to process (get_missing_months of
\* fetch_facebook_reach.py, get_months_to_process of
\* fetch_facebook_comments.py) are, in chronological order and each once,
\* exactly the months from the start month to the month before the
\* current one that have no report file, December being followed by
\* January of the next year.
C24_MissingWindows ==
    (m_script \in {"reach", "comments"} /\ m_pc \in {"window", "exit"} /\ m_pages # <<>>)
    => /\ \A i \in 1..Len(Planned) :
             /\ Planned[i][2] \in 1..12
             /\ MonthNo(m_start) <= MonthNo(Planned[i])
             /\ MonthNo(Planned[i]) < MonthNo(m_now)
             /\ MonthNo(Planned[i]) \notin PersistedNos
       /\ \A i, j \in 1..Len(Planned) : i < j => MonthNo(Planned[i]) < MonthNo(Planned[j])
       /\ \A n \in MonthNo(m_start)..(MonthNo(m_now) - 1) :
             n \notin PersistedNos => \E i \in 1..Len(Planned) : MonthNo(Planned[i]) = n
\* from 2024-11 to 2025-04 with reports for 2024-12 and 2025-02: the plan
\* crosses the year and skips both
C24_Witness ==
    /\ m_script = "reach"
    /\ m_pc = "window"
    /\ m_done = <<>>
    /\ m_files = ReportFiles
    /\ m_windows = <<<<2024, 11>>, <<2025, 1>>, <<2025, 3>>>>

\* C25: within one run, once the token of a page has been resolved, no further
\* token exchange is requested for that page: over all the windows of the run
\* a page that is listed once is asked for its token at most once.
C25_TokenResolvedOnce ==
    (\A p \in Pages : Listed(m_pages, p) <= 1)
        => \A p \in Pages : m_token_calls[p] <= 1

\* C26: get_page_access_token returns a token or None for every outcome of
\* its request (an error body, a body without access_token, a rate-limit
\* response with any Retry-After header, a network failure): no exception
\* reaches its caller.
C26_TokenNeverRaises ==
    (script = "reach" /\ g_pc = "idle" /\ g_result # "none")
        => \A has_token \in BOOLEAN :
               get_page_access_token(g_result, has_token) \in {"token", "None"}

\* the pages of the first n answers of the discovery
RECURSIVE IdsUpTo(_)
IdsUpTo(n) == IF n = 0 THEN <<>> ELSE IdsUpTo(n - 1) \o m_batches[n].ids

\* a discovery request after the first has failed
LaterPageFailed ==
    /\ m_pc # "discover"
    /\ m_next > 1
    /\ ~m_batches[m_next].ok

\* C27: when a discovery request after the first fails, the pagination stops
\* and the pages of the requests answered before it are all kept and handed
\* on to the processing: nothing fetched earlier is discarded and the run is
\* not aborted.
C27_LaterPageFailureKeepsPages ==
    LaterPageFailed => (m_pages = IdsUpTo(m_next - 1) /\ m_exit # 1)

\* C28: when the first discovery request fails, so that no page is
\* discovered, the run ends with a non-zero exit status and has processed no
\* window.
C28_NoPagesAborts ==
    (m_pc = "exit" /\ ~m_batches[1].ok) => (m_exit > 0 /\ m_done = <<>>)

\* a page id that the run discovered twice and fetched twice: the window had
\* no row for it, or the run refreshed every page
FetchedTwice(id) ==
    /\ Cardinality({i \in 1..Len(discovered) : discovered[i].id = id}) > 1
    /\ (update_all \/ RowsOf(file_at_start, id) = {})

\* C29: when the same page id is twice in what one run fetches, the run
\* reports a failure for the window: it does not end as saved with one or
\* both of the rows in the file.
C29_DuplicateIdFails ==
    pc = "idle"
        => \A id \in DiscoveredIds :
               FetchedTwice(id) => ~(outcome = "saved" /\ RowsOf(file, id) # {})

\* the Reach of a line of the file, as read_existing_csv reads it
ReachOf(line) == IF IntFails(line["Reach"]) THEN 0 ELSE FromDigits(line["Reach"])
\* a page whose row the run took over from the file, and one it fetched anew
CarriedOver(id) == RowsOf(file_at_start, id) # {} /\ RowsOf(file, id) # {}
FreshlyFetched(id) == RowsOf(file_at_start, id) = {} /\ RowsOf(file, id) # {}

\* C30: the lines of the window's file are in non-increasing order of Reach,
\* in every state of the file, whatever the order of the discovery and
\* whatever mix of carried-over and freshly fetched rows it holds.
C30_OrderedByReach ==
    \A i, j \in 1..Len(file.rows) :
        i < j => ReachOf(file.rows[i]) >= ReachOf(file.rows[j])

\* a saved file with a carried-over row and a fresh one, which the batches
\* had left in another order than the one written
C30_Witness ==
    /\ pc = "idle"
    /\ outcome = "saved"
    /\ merged # SortedByReach(merged)
    /\ \E id \in Pages : CarriedOver(id)
    /\ \E id \in Pages : FreshlyFetched(id)
    /\ \E i, j \in 1..Len(file.rows) : ReachOf(file.rows[i]) > ReachOf(file.rows[j])

\* a line of the file that the run wrote from a fetch of its own
Fresh(line) ==
    /\ line["Page ID"] \in DiscoveredIds
    /\ <<line["Page ID"], "token">> \in requests
    /\ "Status" \in DOMAIN line => line["Status"] # "UPDATED"

\* C31: in a run with update_all the stored rows of the window are not used:
\* nothing is loaded, every discovered page goes through the full fetch and
\* none through the backfill (no status becomes UPDATED), and whatever the
\* run writes to the file are rows it fetched itself.
C31_UpdateAllRefetches ==
    (update_all /\ runs > 0)
        => /\ loaded = <<>>
           /\ partial_queue = <<>>
           /\ counters.partial = 0
           /\ counters.updated = 0
           /\ Len(full_queue) + counters.success + counters.failed
                  = (IF pc = "idle" /\ outcome = "interrupted" THEN counters.success + counters.failed
                     ELSE Len(discovered))
           /\ file # file_at_start => \A j \in 1..Len(file.rows) : Fresh(file.rows[j])

\* a run with update_all has saved a file that replaces stored rows of pages
\* it discovered again and drops the row of a page it did not
C31_Witness ==
    /\ update_all
    /\ pc = "idle"
    /\ outcome = "saved"
    /\ \E id \in DiscoveredIds : RowsOf(file_at_start, id) # {} /\ RowsOf(file, id) # {}
    /\ \E id \in Pages : RowsOf(file_at_start, id) # {} /\ RowsOf(file, id) = {}

\* C32: after a rate-limit signal (HTTP 429 or error code 4) the sleep of
\* api_request (fetch_facebook_reach.py) before the retry is at least
\* 60 * rate_limit_backoff seconds, whole seconds counted, unless that is
\* beyond 300, and never more than 300 seconds, whatever the Retry-After
\* header and the multiplier are.
C32_RateLimitWait ==
    [][(script = "reach" /\ g_pc = "request" /\ g_event' \in {"429", "code4"}
            /\ g_pc' = "retry_sleep")
       => /\ wait_time' <= 300 * Scale
          /\ wait_time' >= Min(IntSeconds(Window(rate_limit_backoff')), 300 * Scale)]_vars

\* C33: a step of api_request (fetch_facebook_reach.py) that receives an
\* HTTP 5xx leaves rate_limit_backoff, consecutive_successes and
\* last_rate_limit_time as they are, and the sleep before the retry is
\* min(RETRY_DELAY * 2^attempt, 30) seconds.
C33_ServerErrorFrame ==
    [][(script = "reach" /\ g_pc = "request" /\ g_event' = "5xx")
       => /\ rate_limit_backoff' = rate_limit_backoff
          /\ consecutive_successes' = consecutive_successes
          /\ time_since_limit' = time_since_limit
          /\ wait_time' = (IF RETRY_DELAY * (2^attempt) <= 30
                           THEN RETRY_DELAY * (2^attempt) ELSE 30) * Scale]_vars

\* a 5xx at the second attempt of a call, after a rate limit has raised the
\* multiplier: the sleep is twice RETRY_DELAY
C33_Witness ==
    /\ script = "reach"
    /\ g_pc = "retry_sleep"
    /\ g_event = "5xx"
    /\ attempt = 1
    /\ rate_limit_backoff > Scale
    /\ time_since_limit # NoLimitYet
    /\ wait_time = 2 * RETRY_DELAY * Scale

\* get_existing_reports l.770-778: the month is taken as done when a file
\* with its name is found, whatever the file holds
InExistingReports(f) == f.exists

\* C34: the window is left out of the missing months of a later run only if
\* an earlier run went through all its pages and wrote the complete result:
\* a run that started without a file for the window and was cut short,
\* while fetching or while writing, leaves the window missing.
C34_SkippedOnlyWhenComplete ==
    (pc = "idle" /\ runs > 0 /\ ~InExistingReports(file_at_start) /\ InExistingReports(file))
        => (outcome = "saved" /\ file = CompleteFile(merged))

\* C35: rate_limit_backoff goes down only at a success that is at least the
\* 50th since the last rate-limit signal (HTTP 429 or error code 4): the
\* success that ends a call whose earlier responses were all rate-limit
\* signals is the first one since the signal and does not lower it.
C35_NoDecayRightAfterLimit ==
    [][(script = "reach" /\ g_pc = "request" /\ g_causes = "rate_limit"
            /\ g_event' \in {"200", "decay"})
       => rate_limit_backoff' >= rate_limit_backoff]_vars

\* C36: safe_media_insights_v46 sends at most three requests, in the order
\* optimal, fallback, minimal list; the fallback and the minimal list are
\* requested only after the optimal list was answered by status 400 with
\* error code 100; the first answer with status 200 and a data field is
\* what is returned, and no request follows it; when no answer is such, the
\* body of the answer to the optimal list is returned.
C36_FallbackChain ==
    LET n == Len(c_sent)
    IN /\ n <= 3
       /\ c_sent = SubSeq(MetricLists, 1, n)
       /\ n >= 2 => c_answers[1] = "code100"
       /\ \A i \in 1..(n - 1) : ~Succeeded(c_answers[i])
       /\ c_pc = "returned"
            => c_result = IF Succeeded(c_answers[n])
                          THEN Body(MetricLists[n], c_answers[n])
                          ELSE Body(MetricLists[1], c_answers[1])

\* the three lists were asked, none was answered with data, and the body
\* returned is the one of the optimal list though the last answer differs
C36_Witness ==
    /\ c_pc = "returned"
    /\ c_sent = MetricLists
    /\ c_answers[3] = "500"
    /\ c_result = Body("optimal", "code100")

\* C37: a listing ends whatever the server answers: its requests are no
\* more than the URLs the server can name, also when a paging.next names a
\* URL that was requested before.
C37_ListingBounded ==
    l_kind \in {"reach", "weekly"} => l_count <= Cardinality(Urls)

\* the ids of the rows a run loaded, and a run whose pass over its pages is
\* through, so that process_in_batches has returned its counters
LoadedIds == {loaded[i]["Page ID"] : i \in 1..Len(loaded)}
PassDone ==
    \/ pc \in {"save_open", "save_header", "save_rows"}
    \/ pc = "idle" /\ outcome \in {"saved", "nothing_to_save", "save_failed", "write_error"}

\* C38: the counters process_in_batches returns count every page once: new,
\* failed, updated and skipped add up to the number of distinct ids among
\* the discovered pages and the loaded rows, and skipped is not negative.
C38_CountersAccount ==
    PassDone
        => /\ counters.skipped >= 0
           /\ counters.success + counters.failed + counters.updated + counters.skipped
                  = Cardinality(DiscoveredIds \cup LoadedIds)

====
